---- MODULE Spec2Model ----
(***************************************************************************)
(* Horta Inteligente: the irrigation dashboards of the repository, each a  *)
(* React component over Firestore documents.  Every dashboard is modelled   *)
(* as a state machine over its useState cells, the stored documents, and    *)
(* the asynchronous calls (authentication, writes) its handlers leave in    *)
(* flight.  One specification per dashboard concern:                        *)
(*   SpecThresholds    weekday dashboard (README.md), automatic-mode band    *)
(*   SpecManual        weekday dashboard, manual control of the sprinkler    *)
(*   SpecAgenda        addAgendamento (README.md, unnamed/part_001)          *)
(*   SpecGarden        two-valve dashboard (src/App.jsx), garden document    *)
(*   SpecGardenSchedules  two-valve dashboard, schedule list                 *)
(*   SpecAutoCard      hooks dashboard (README.md), AutoIrrigationCard       *)
(*   SpecScheduleCard  hooks dashboard (README.md), ScheduleCard             *)
(***************************************************************************)
EXTENDS Integers, Sequences, FiniteSets, TLC

VARIABLES
    \* ---- weekday dashboard, README.md lines 81-246 ----
    isAutoMode,      \* useState(false)
    minHumidity,     \* useState(35)
    maxHumidity,     \* useState(60)
    aspersorLigado,  \* useState(false)
    listening,       \* TRUE once ensureAnonAuth().then(setup) attached the listeners
    configGeral,     \* stored document configuracao/geral
    statusAspersor1, \* stored document status/aspersor1
    toggleClicks,    \* number of clicks on the manual button (counted up to MaxClicks + 1)
    authWait,        \* handler calls suspended at `await ensureAnonAuth()`, oldest first
    pending,         \* writes issued to Firestore and not yet acknowledged, oldest first
    alerts,          \* messages shown with alert() so far
    \* ---- schedule form of the weekday dashboard and of its minimum-only
    \*      predecessor (unnamed/part_001) ----
    dashboard,       \* which of the two dashboards runs: "weekdays" or "minimumOnly"
    hora,            \* useState(""): the time input, a sequence of characters
    duracao,         \* useState(1)
    days,            \* useState([1, 3, 5]) (weekday dashboard only)
    agendamentos,    \* stored collection agendamentos: a set of documents
    nextId,          \* number of documents created so far (document ids)
    \* ---- two-valve dashboard, src/App.jsx ----
    firebaseUp,      \* initializeApp/getAuth/getFirestore succeeded (auth and db are set)
    mounted,         \* the App component is mounted
    authListening,   \* "notYet", "on" (onAuthStateChanged subscribed) or "off"
    authEvent,       \* auth state not yet delivered to the listener: "none", "user", "noUser"
    signInPending,   \* signInAnonymously / signInWithCustomToken is in flight
    userId,          \* useState(null): NoUser or the uid
    isAuthReady,     \* useState(false)
    isLoading,       \* useState(true)
    error,           \* useState(null): NoError or the banner text
    effectDeps,      \* <<isAuthReady, userId>> of the last run of the data effect
    ensurePc,        \* ensureFirestoreData: "idle", "getDoc", "setDoc" or "done"
    subscribed,      \* the garden and schedules listeners are attached
    sensorData,      \* useState({ soilMoisture: 0, temperature: 0, humidity: 0 })
    valveStates,     \* useState({ valve1: false, valve2: false })
    gardenMain,      \* stored document artifacts/{appId}/public/data/garden/main
    newSchedule,     \* useState({ time: '', valveId: 'valve1' })
    schedules,       \* useState([]): the listed schedules, sorted by time
    schedulesCol,    \* stored sub-collection garden/main/schedules
    scheduleIds,     \* number of document ids addDoc has generated
    \* ---- hooks dashboard (README.md, second listing): the two cards ----
    autoModeEnabled, \* AutoIrrigationCard: useState(settings.autoModeEnabled)
    settings,        \* useAutoSettings: useState({ autoModeEnabled, minHumidity, maxHumidity })
    schedule,        \* useSchedule: useState({ days, time, minutes, aspersorId })
    start,           \* ScheduleCard: useState(schedule.time || "06:00")
    duration,        \* ScheduleCard: useState(schedule.minutes || 15)
    agendamentoAspersor1, \* stored document agendamentos/aspersor1
    \* ---- hooks dashboard: the history of daily averages ----
    today,           \* the current day (days are numbered; ISO dates sort alike)
    offline,         \* the writer of the daily averages is down
    outages,         \* number of times it went down
    mediaDiaria,     \* stored collection mediaDiaria
    dailyAverageHistory,  \* useDailyAverageHistory: useState([])
    \* ---- the stored state of the sprinkler when the dashboard was mounted ----
    initialIsOn,
    \* ---- command/status dashboard (unnamed/part_002) ----
    comandoAspersor1, \* stored document comandos/aspersor1
    commandDue,      \* the firmware has not yet handled the stored command
    statusDue,       \* a snapshot of status/aspersor1 is due to the listener
    \* ---- ensureAnonAuth (src/lib/firebase.js) and the mount effects that
    \*      wait for it: HistoryChart.jsx and the dashboards ----
    currentUser,     \* auth has a signed-in user
    anonAuth,        \* the mount effect's ensureAnonAuth(): "idle", "observing",
                     \* "signingIn", "resolved" or "done" (its then-callback has run)
    chartMounted,    \* HistoryChart: "notYet", "mounted" or "tornDown"
    chartUnsub,      \* `let unsub` of the effect: "noop" or "onSnapshot"
    chartSubscribed, \* the historico listener is attached
    historico,       \* stored collection historico of the last 7 days, by createdAt
    rows,            \* useState([])
    \* ---- hooks dashboard: ManualControlCard and useHumidityHistory ----
    loading,         \* ManualControlCard: useState(false)
    cardIsOn,        \* ManualControlCard: useState(false) (`isOn`)
    leiturasUmidade, \* stored collection leiturasUmidade: a set of documents
    humidityHistory  \* useHumidityHistory: useState([]) (`data`, `history` in App)

controlVars == <<isAutoMode, minHumidity, maxHumidity, aspersorLigado, listening,
                 configGeral, statusAspersor1, toggleClicks>>
callVars == <<authWait, pending, alerts>>
agendaVars == <<dashboard, hora, duracao, days, agendamentos, nextId>>

gardenVars == <<firebaseUp, mounted, authListening, authEvent, signInPending, userId,
                isAuthReady, isLoading, error, effectDeps, ensurePc, subscribed,
                sensorData, valveStates, gardenMain,
                newSchedule, schedules, schedulesCol, scheduleIds>>

cardVars == <<autoModeEnabled, settings, schedule, start, duration, agendamentoAspersor1>>

historyVars == <<today, offline, outages, mediaDiaria, dailyAverageHistory>>

\* The parts of the repository modelled further down.
commandVars == <<comandoAspersor1, commandDue, statusDue>>

chartVars == <<currentUser, anonAuth, chartMounted, chartUnsub, chartSubscribed,
               historico, rows>>

hooksVars == <<loading, cardIsOn, leiturasUmidade, humidityHistory>>

otherVars == <<historyVars, initialIsOn, commandVars, chartVars, hooksVars>>

vars == <<controlVars, callVars, agendaVars, gardenVars, cardVars, otherVars>>

\* What the handlers of the automatic mode and of the manual control leave alone.
nonControl == <<agendaVars, gardenVars, cardVars, otherVars>>

-----------------------------------------------------------------------------
(* Bounds of the model *)

\* handler calls that may be suspended or unacknowledged at once
MaxInFlight == 1

\* schedule documents created in one run
MaxDocs == 1
MaxClicks == 3

(* Program constants *)
InitMinHumidity == 35
InitMaxHumidity == 60
InitDuracao == 1
InitDays == <<1, 3, 5>>
MinMinutes == 1
SliderLow == 0
InitSettingsMin == 50
InitSettingsMax == 80
DefaultMinutes == 15
DefaultTime == <<"0", "6", ":", "0", "0">>
SliderHigh == 100

\* The positions a range slider is moved to: both ends of the 0..100 track,
\* the initial thresholds, and the positions next to the ends.
SliderInputs == {SliderLow, InitMinHumidity, InitMaxHumidity, SliderHigh}

-----------------------------------------------------------------------------
(* Documents: a stored document is a record; a missing document is NoDoc,   *)
(* a missing field is a field outside the record's domain.                  *)

NoDoc == [exists |-> FALSE]

Has(data, field) == field \in DOMAIN data

\* setDoc(ref, patch, { merge: true }): the fields of patch replace those of
\* the stored document, the others stay.  (updatedAt is left out of the model.)
MergeDoc(stored, patch) == (patch @@ [exists |-> TRUE]) @@ stored

Max2(a, b) == IF a >= b THEN a ELSE b
Min2(a, b) == IF a <= b THEN a ELSE b

-----------------------------------------------------------------------------
(* Weekday dashboard: automatic-mode thresholds *)

\* updateAutoModeConfig(newConfig): suspends at `await ensureAnonAuth()`.
updateAutoModeConfig(newConfig) ==
    authWait' = Append(authWait, [op |-> "updateAutoModeConfig",
                                  target |-> "configuracao/geral",
                                  patch |-> newConfig])

CanStartCall == Len(authWait) + Len(pending) < MaxInFlight

handleAutoModeToggle ==
    /\ CanStartCall
    /\ LET next == ~isAutoMode IN
        /\ isAutoMode' = next
        /\ updateAutoModeConfig([autoModeEnabled |-> next])
    /\ UNCHANGED <<minHumidity, maxHumidity, aspersorLigado, listening,
                   configGeral, statusAspersor1, pending, alerts>>
    /\ UNCHANGED <<nonControl, toggleClicks>>

\* Mutant of handleMinValue: the comparison misses the case v = maxHumidity.
handleMinValue_strict(v) ==
    IF v > maxHumidity THEN Max2(0, maxHumidity - 1) ELSE v

\* The value handleMinHumidityChange stores: `if (v >= maxHumidity) v = Math.max(0, maxHumidity - 1)`
handleMinValue(v) ==
    IF v >= maxHumidity THEN Max2(0, maxHumidity - 1) ELSE v

\* The value handleMaxHumidityChange stores: `if (v <= minHumidity) v = Math.min(100, minHumidity + 1)`
handleMaxValue(v) ==
    IF v <= minHumidity THEN Min2(100, minHumidity + 1) ELSE v

\* The range inputs are disabled while isAutoMode is false, so a change event
\* only arrives in automatic mode.
handleMinHumidityChange(e) ==
    /\ isAutoMode
    /\ CanStartCall
    /\ LET v == handleMinValue(e) IN
        /\ minHumidity' = v
        /\ IF isAutoMode THEN updateAutoModeConfig([minHumidity |-> v])
                         ELSE UNCHANGED authWait
    /\ UNCHANGED <<isAutoMode, maxHumidity, aspersorLigado, listening,
                   configGeral, statusAspersor1, pending, alerts>>
    /\ UNCHANGED <<nonControl, toggleClicks>>

handleMaxHumidityChange(e) ==
    /\ isAutoMode
    /\ CanStartCall
    /\ LET v == handleMaxValue(e) IN
        /\ maxHumidity' = v
        /\ IF isAutoMode THEN updateAutoModeConfig([maxHumidity |-> v])
                         ELSE UNCHANGED authWait
    /\ UNCHANGED <<isAutoMode, minHumidity, aspersorLigado, listening,
                   configGeral, statusAspersor1, pending, alerts>>
    /\ UNCHANGED <<nonControl, toggleClicks>>

\* ensureAnonAuth() resolves (it resolves whether or not the sign-in worked):
\* the oldest suspended handler goes on to issue its write.
AuthResolved ==
    /\ authWait # <<>>
    /\ pending' = Append(pending, Head(authWait))
    /\ authWait' = Tail(authWait)
    /\ UNCHANGED <<isAutoMode, minHumidity, maxHumidity, aspersorLigado, listening,
                   configGeral, statusAspersor1, alerts>>
    /\ UNCHANGED <<nonControl, toggleClicks>>

\* The alert each handler shows in its catch block.
AlertOf(op) ==
    CASE op = "updateAutoModeConfig" -> "Nao foi possivel salvar a configuracao."
      [] op = "toggleAspersor"       -> "Nao foi possivel alternar o aspersor."
      [] op = "addAgendamento"       -> "Nao foi possivel adicionar o agendamento."
      [] op = "removerAgendamento"   -> "Nao foi possivel remover o agendamento."

\* The server applies the oldest unacknowledged write.
ConfigWriteApplied ==
    /\ pending # <<>>
    /\ Head(pending).target = "configuracao/geral"
    /\ configGeral' = MergeDoc(configGeral, Head(pending).patch)
    /\ pending' = Tail(pending)
    /\ UNCHANGED <<isAutoMode, minHumidity, maxHumidity, aspersorLigado, listening,
                   statusAspersor1, authWait, alerts>>
    /\ UNCHANGED <<nonControl, toggleClicks>>

\* The server rejects the oldest unacknowledged write (network, permission):
\* the awaiting handler's catch block runs.
WriteRejected ==
    /\ pending # <<>>
    /\ alerts' = alerts \cup {AlertOf(Head(pending).op)}
    /\ pending' = Tail(pending)
    /\ UNCHANGED <<isAutoMode, minHumidity, maxHumidity, aspersorLigado, listening,
                   configGeral, statusAspersor1, authWait>>
    /\ UNCHANGED <<nonControl, toggleClicks>>

\* ensureAnonAuth().then(() => setup()): the three listeners are attached.
setup ==
    /\ ~listening
    /\ listening' = TRUE
    /\ UNCHANGED <<isAutoMode, minHumidity, maxHumidity, aspersorLigado,
                   configGeral, statusAspersor1, authWait, pending, alerts>>
    /\ UNCHANGED <<nonControl, toggleClicks>>

\* The minimum the configuration listener stores for a snapshot that carries a
\* numeric minHumidity.  maxHumidity in the callback is the value captured when
\* the effect ran, at mount: the initial 60.
snapshotMinValue(data) ==
    LET incomingMin == data.minHumidity
        maxRef == IF Has(data, "maxHumidity") THEN data.maxHumidity ELSE InitMaxHumidity
    IN IF incomingMin >= maxRef THEN Max2(0, maxRef - 1) ELSE incomingMin

\* The maximum the configuration listener stores for a snapshot that carries a
\* numeric maxHumidity.  minHumidity in the callback is the mount-time 35.
snapshotMaxValue(data) ==
    LET incomingMax == data.maxHumidity
        minRef == IF Has(data, "minHumidity") THEN data.minHumidity ELSE InitMinHumidity
    IN IF incomingMax <= minRef THEN Min2(100, minRef + 1) ELSE incomingMax

\* onSnapshot(refConfig, ...): the listener receives the stored document.
unsubConfig ==
    /\ listening
    /\ LET data == configGeral IN
        IF ~data.exists
        THEN UNCHANGED <<isAutoMode, minHumidity, maxHumidity>>
        ELSE /\ isAutoMode' = IF Has(data, "autoModeEnabled")
                              THEN data.autoModeEnabled ELSE isAutoMode
             /\ minHumidity' = IF Has(data, "minHumidity")
                               THEN snapshotMinValue(data) ELSE minHumidity
             /\ maxHumidity' = IF Has(data, "maxHumidity")
                               THEN snapshotMaxValue(data) ELSE maxHumidity
    /\ UNCHANGED <<aspersorLigado, listening, configGeral, statusAspersor1,
                   authWait, pending, alerts>>
    /\ UNCHANGED <<nonControl, toggleClicks>>

\* What another client of the same database (another dashboard, the firmware's
\* backend) may store in configuracao/geral: the rules ask only for the types.
ExternalConfigPatches ==
    {[autoModeEnabled |-> b] : b \in BOOLEAN}
    \cup {[minHumidity |-> m] : m \in SliderInputs}
    \cup {[maxHumidity |-> m] : m \in SliderInputs}

ExternalConfigWrite(patch) ==
    /\ configGeral' = MergeDoc(configGeral, patch)
    /\ UNCHANGED <<isAutoMode, minHumidity, maxHumidity, aspersorLigado, listening,
                   statusAspersor1, authWait, pending, alerts>>
    /\ UNCHANGED <<nonControl, toggleClicks>>

\* useAutoSettings: the initial settings.
InitSettings ==
    [autoModeEnabled |-> TRUE, minHumidity |-> InitSettingsMin, maxHumidity |-> InitSettingsMax]

NoDays == <<FALSE, FALSE, FALSE, FALSE, FALSE, FALSE, FALSE>>

\* useSchedule: the initial schedule.
InitSchedule ==
    [days |-> NoDays, time |-> DefaultTime, minutes |-> DefaultMinutes,
     aspersorId |-> "aspersor1"]

\* The hooks and the two cards as constructed, nothing stored.
CardsConstructed ==
    /\ settings = InitSettings
    /\ autoModeEnabled = InitSettings.autoModeEnabled
    /\ schedule = InitSchedule
    /\ start = DefaultTime
    /\ duration = DefaultMinutes
    /\ agendamentoAspersor1 = NoDoc

FirstDay == 1

\* The history of daily averages with nothing stored.
HistoryConstructed ==
    /\ today = FirstDay
    /\ offline = FALSE
    /\ outages = 0
    /\ mediaDiaria = {}
    /\ dailyAverageHistory = <<>>

\* HistoryChart before it is mounted, nobody signed in.
ChartConstructed ==
    /\ anonAuth = "idle"
    /\ chartMounted = "notYet"
    /\ chartUnsub = "noop"
    /\ chartSubscribed = FALSE
    /\ historico = <<>>
    /\ rows = <<>>

\* ManualControlCard and useHumidityHistory as constructed, no reading stored.
HooksConstructed ==
    /\ loading = FALSE
    /\ cardIsOn = FALSE
    /\ leiturasUmidade = {}
    /\ humidityHistory = <<>>

\* The parts modelled further down, as constructed.
OthersIdle ==
    /\ HistoryConstructed
    /\ HooksConstructed
    /\ ChartConstructed
    /\ currentUser = FALSE
    /\ comandoAspersor1 = NoDoc
    /\ commandDue = FALSE
    /\ statusDue = FALSE

NoUser == "none"
NoError == "none"
ZeroSensors == [soilMoisture |-> 0, temperature |-> 0, humidity |-> 0]
ValvesOff == [valve1 |-> FALSE, valve2 |-> FALSE]
EmptySchedule == [time |-> "", valveId |-> "valve1"]

\* A schedule stored before the dashboard is mounted.
StoredSchedule == [id |-> 0, time |-> "18:30", valveId |-> "valve2"]

\* The two-valve dashboard as constructed: the useState initial values.
GardenConstructed ==
    /\ mounted = TRUE
    /\ authListening = "notYet"
    /\ signInPending = FALSE
    /\ userId = NoUser
    /\ isAuthReady = FALSE
    /\ isLoading = TRUE
    /\ error = NoError
    /\ effectDeps = <<FALSE, NoUser>>
    /\ ensurePc = "idle"
    /\ subscribed = FALSE
    /\ sensorData = ZeroSensors
    /\ valveStates = ValvesOff
    /\ newSchedule = EmptySchedule
    /\ schedules = <<>>
    /\ scheduleIds = 0

\* The two-valve dashboard is not part of the run.
GardenAbsent ==
    /\ GardenConstructed
    /\ firebaseUp = TRUE
    /\ authEvent = "none"
    /\ gardenMain = NoDoc
    /\ schedulesCol = {}

InitWeekday ==
    /\ isAutoMode = FALSE
    /\ minHumidity = InitMinHumidity
    /\ maxHumidity = InitMaxHumidity
    /\ aspersorLigado = FALSE
    /\ listening = FALSE
    /\ configGeral = NoDoc
    /\ statusAspersor1 = NoDoc
    /\ toggleClicks = 0
    /\ initialIsOn = FALSE
    /\ authWait = <<>>
    /\ pending = <<>>
    /\ alerts = {}
    /\ dashboard = "weekdays"
    /\ hora = <<>>
    /\ duracao = InitDuracao
    /\ days = InitDays
    /\ agendamentos = {}
    /\ nextId = 0
    /\ GardenAbsent
    /\ CardsConstructed
    /\ OthersIdle

NextThresholds ==
    \/ setup
    \/ handleAutoModeToggle
    \/ \E e \in SliderInputs : handleMinHumidityChange(e)
    \/ \E e \in SliderInputs : handleMaxHumidityChange(e)
    \/ AuthResolved
    \/ ConfigWriteApplied
    \/ WriteRejected
    \/ unsubConfig
    \/ \E patch \in ExternalConfigPatches : ExternalConfigWrite(patch)

SpecThresholds == InitWeekday /\ [][NextThresholds]_vars

\* The automatic mode with the dashboard as the only writer of
\* configuracao/geral and every write applied.
NextBand ==
    \/ setup
    \/ handleAutoModeToggle
    \/ \E e \in SliderInputs : handleMinHumidityChange(e)
    \/ \E e \in SliderInputs : handleMaxHumidityChange(e)
    \/ AuthResolved
    \/ ConfigWriteApplied
    \/ unsubConfig

SpecBand == InitWeekday /\ [][NextBand]_vars

-----------------------------------------------------------------------------
(* Weekday dashboard: manual control of the sprinkler *)

\* toggleAspersor: `if (isAutoMode) return`, then `await ensureAnonAuth()`,
\* then the write of { isOn: !aspersorLigado } with the aspersorLigado of the
\* render the click happened in.  The button is disabled in automatic mode.
toggleAspersor ==
    /\ ~isAutoMode
    /\ CanStartCall
    /\ authWait' = Append(authWait, [op |-> "toggleAspersor",
                                     target |-> "status/aspersor1",
                                     patch |-> [isOn |-> ~aspersorLigado]])
    /\ toggleClicks' = IF toggleClicks <= MaxClicks THEN toggleClicks + 1 ELSE toggleClicks
    /\ UNCHANGED <<isAutoMode, minHumidity, maxHumidity, aspersorLigado, listening,
                   configGeral, statusAspersor1, pending, alerts>>
    /\ UNCHANGED nonControl

StatusWriteApplied ==
    /\ pending # <<>>
    /\ Head(pending).target = "status/aspersor1"
    /\ statusAspersor1' = MergeDoc(statusAspersor1, Head(pending).patch)
    /\ pending' = Tail(pending)
    /\ UNCHANGED <<isAutoMode, minHumidity, maxHumidity, aspersorLigado, listening,
                   configGeral, authWait, alerts>>
    /\ UNCHANGED <<nonControl, toggleClicks>>

\* onSnapshot(refStatus, ...)
unsubStatus ==
    /\ listening
    /\ LET data == statusAspersor1 IN
        aspersorLigado' = IF data.exists /\ Has(data, "isOn") THEN data.isOn
                          ELSE aspersorLigado
    /\ UNCHANGED <<isAutoMode, minHumidity, maxHumidity, listening,
                   configGeral, statusAspersor1, authWait, pending, alerts>>
    /\ UNCHANGED <<nonControl, toggleClicks>>

\* The firmware reports the actuator's state in status/aspersor1.
ExternalStatusWrite(isOn) ==
    /\ statusAspersor1' = MergeDoc(statusAspersor1, [isOn |-> isOn])
    /\ UNCHANGED <<isAutoMode, minHumidity, maxHumidity, aspersorLigado, listening,
                   configGeral, authWait, pending, alerts>>
    /\ UNCHANGED <<nonControl, toggleClicks>>

NextManual ==
    \/ setup
    \/ toggleAspersor
    \/ handleAutoModeToggle
    \/ AuthResolved
    \/ StatusWriteApplied
    \/ ConfigWriteApplied
    \/ WriteRejected
    \/ unsubStatus
    \/ unsubConfig
    \/ \E isOn \in BOOLEAN : ExternalStatusWrite(isOn)
    \/ \E b \in BOOLEAN : ExternalConfigWrite([autoModeEnabled |-> b])

SpecManual == InitWeekday /\ [][NextManual]_vars

\* The manual button alone: automatic mode stays off, nothing else writes
\* status/aspersor1 and every write is applied.
NextToggles ==
    \/ setup
    \/ toggleAspersor
    \/ AuthResolved
    \/ StatusWriteApplied
    \/ unsubStatus

\* The weekday dashboard mounted over a status document that is missing,
\* off or on.
InitToggles ==
    /\ isAutoMode = FALSE
    /\ minHumidity = InitMinHumidity
    /\ maxHumidity = InitMaxHumidity
    /\ aspersorLigado = FALSE
    /\ listening = FALSE
    /\ configGeral = NoDoc
    /\ initialIsOn \in BOOLEAN
    /\ statusAspersor1 \in IF initialIsOn THEN {[exists |-> TRUE, isOn |-> TRUE]}
                           ELSE {NoDoc, [exists |-> TRUE, isOn |-> FALSE]}
    /\ toggleClicks = 0
    /\ authWait = <<>>
    /\ pending = <<>>
    /\ alerts = {}
    /\ dashboard = "weekdays"
    /\ hora = <<>>
    /\ duracao = InitDuracao
    /\ days = InitDays
    /\ agendamentos = {}
    /\ nextId = 0
    /\ GardenAbsent
    /\ CardsConstructed
    /\ OthersIdle

SpecToggles == InitToggles /\ [][NextToggles]_vars

-----------------------------------------------------------------------------
(* Schedule form: addAgendamento of the weekday dashboard (README.md) and of *)
(* the minimum-only dashboard (unnamed/part_001)                             *)

Digits == {"0", "1", "2", "3", "4", "5", "6", "7", "8", "9"}

\* /^\d{2}:\d{2}$/ as its sequence of tokens: "d" is \d, any other token is
\* the literal character.
PatternHHMM == <<"d", "d", ":", "d", "d">>

TokenMatches(token, ch) == IF token = "d" THEN ch \in Digits ELSE ch = token

\* An anchored match: the whole of s against the whole of the pattern.
RECURSIVE Matches(_, _)
Matches(s, pattern) ==
    IF pattern = <<>> THEN s = <<>>
    ELSE /\ s # <<>>
         /\ TokenMatches(Head(pattern), Head(s))
         /\ Matches(Tail(s), Tail(pattern))

\* Mutant of RegexHHMM: the pattern without the closing `$`.
RECURSIVE MatchesPrefix(_, _)
MatchesPrefix(s, pattern) ==
    IF pattern = <<>> THEN TRUE
    ELSE /\ s # <<>>
         /\ TokenMatches(Head(pattern), Head(s))
         /\ MatchesPrefix(Tail(s), Tail(pattern))

RegexHHMM_unanchored(s) == MatchesPrefix(s, PatternHHMM)

\* /^\d{2}:\d{2}$/.test(hora)
RegexHHMM(s) == Matches(s, PatternHHMM)

\* [...new Set(days)].sort(): the distinct elements in ascending order (the
\* default sort compares the decimal strings, which for 0..6 is the numeric order).
RECURSIVE SortSet(_)
SortSet(S) ==
    IF S = {} THEN <<>>
    ELSE LET least == CHOOSE x \in S : \A y \in S : x <= y
         IN <<least>> \o SortSet(S \ {least})

\* Mutant of SortedUnique: the list as the checkboxes left it.
SortedUnique_asIs(list) == list

SortedUnique(list) == SortSet({list[i] : i \in DOMAIN list})

\* What the user may type into the time field.
HoraInputs ==
    { <<>>,
      <<"0", "9", ":", "0", "0">>,
      <<"9", "9", ":", "9", "9">>,
      <<"9", ":", "0", "0">>,
      <<"0", "9", ":", "0">>,
      <<"0", "9", ":", "0", "0", "0">>,
      <<"0", "9", "0", "0">>,
      <<"0", "9", "x", "0", "0">>,
      <<"x", "9", ":", "0", "0">>,
      <<"0", "9", ":", "0", "x">>,
      <<"0", "9", "0", ":", "0">> }

\* The time field in the check of the weekday selection: empty or a time of day.
WeekdayHoraInputs == {<<>>, <<"0", "9", ":", "0", "0">>}

\* Number(e.target.value) of the duration field; an empty field gives 0.
DuracaoInputs == {-1, 0, 1, 2}

\* onChange of the time input
setHora(value) ==
    /\ hora' = value
    /\ UNCHANGED <<dashboard, duracao, days, agendamentos, nextId>>
    /\ UNCHANGED <<controlVars, callVars, gardenVars, cardVars, otherVars>>

\* onChange of the duration input: setDuracao(Math.max(1, Number(e.target.value)))
setDuracao(value) ==
    /\ duracao' = Max2(1, value)
    /\ UNCHANGED <<dashboard, hora, days, agendamentos, nextId>>
    /\ UNCHANGED <<controlVars, callVars, gardenVars, cardVars, otherVars>>

\* The weekday checkboxes that are clicked.
WeekdayInputs == {1, 3, 5}

\* onChange of a weekday checkbox (checked={days.includes(d.v)}, so
\* e.target.checked is the opposite): setDays((prev) => e.target.checked ?
\* [...prev, d.v] : prev.filter((x) => x !== d.v)).
setDays(v) ==
    /\ dashboard = "weekdays"
    /\ LET checked == ~(\E i \in DOMAIN days : days[i] = v)
       IN days' = IF checked THEN Append(days, v)
                  ELSE SelectSeq(days, LAMBDA x : x # v)
    /\ UNCHANGED <<dashboard, hora, duracao, agendamentos, nextId>>
    /\ UNCHANGED <<controlVars, callVars, gardenVars, cardVars, otherVars>>

\* The value of serverTimestamp() in a written document.
ServerTimestamp == "serverTimestamp"

\* Documents this run may still create (ids are bounded by MaxDocs).
CanCreate ==
    nextId + Cardinality({i \in DOMAIN authWait : authWait[i].target = "agendamentos"})
           + Cardinality({i \in DOMAIN pending : pending[i].target = "agendamentos"})
      < MaxDocs

ShowAlert(message) ==
    /\ alerts' = alerts \cup {message}
    /\ UNCHANGED <<authWait, pending>>

\* addAgendamento of the weekday dashboard
addAgendamento ==
    /\ dashboard = "weekdays"
    /\ IF hora = <<>> \/ ~RegexHHMM(hora)
       THEN ShowAlert("Informe um horario valido (HH:MM).")
       ELSE IF Len(days) = 0
       THEN ShowAlert("Selecione pelo menos um dia da semana.")
       ELSE IF duracao < MinMinutes
       THEN ShowAlert("A duracao minima e 1 minuto.")
       ELSE /\ CanStartCall
            /\ CanCreate
            /\ authWait' = Append(authWait,
                   [op |-> "addAgendamento",
                    target |-> "agendamentos",
                    patch |-> [time |-> hora,
                               minutes |-> duracao,
                               aspersorId |-> "aspersor1",
                               days |-> SortedUnique(days),
                               createdAt |-> ServerTimestamp]])
            /\ UNCHANGED <<pending, alerts>>
    /\ UNCHANGED agendaVars
    /\ UNCHANGED <<controlVars, gardenVars, cardVars, otherVars>>

\* addAgendamento of the minimum-only dashboard: no weekdays
addAgendamento_part001 ==
    /\ dashboard = "minimumOnly"
    /\ IF hora = <<>> \/ ~RegexHHMM(hora)
       THEN ShowAlert("Informe um horario valido (HH:MM).")
       ELSE IF duracao < MinMinutes
       THEN ShowAlert("A duracao minima e 1 minuto.")
       ELSE /\ CanStartCall
            /\ CanCreate
            /\ authWait' = Append(authWait,
                   [op |-> "addAgendamento",
                    target |-> "agendamentos",
                    patch |-> [time |-> hora,
                               minutes |-> duracao,
                               aspersorId |-> "aspersor1",
                               createdAt |-> ServerTimestamp]])
            /\ UNCHANGED <<pending, alerts>>
    /\ UNCHANGED agendaVars
    /\ UNCHANGED <<controlVars, gardenVars, cardVars, otherVars>>

\* addDoc resolved: the document is stored under a fresh id and the handler
\* goes on to setHora("").
AgendaWriteApplied ==
    /\ pending # <<>>
    /\ Head(pending).target = "agendamentos"
    /\ agendamentos' = agendamentos \cup {Head(pending).patch @@ [id |-> nextId + 1]}
    /\ nextId' = nextId + 1
    /\ hora' = <<>>
    /\ pending' = Tail(pending)
    /\ UNCHANGED <<dashboard, duracao, days, authWait, alerts>>
    /\ UNCHANGED <<controlVars, gardenVars, cardVars, otherVars>>

InitAgenda ==
    /\ isAutoMode = FALSE
    /\ minHumidity = InitMinHumidity
    /\ maxHumidity = InitMaxHumidity
    /\ aspersorLigado = FALSE
    /\ listening = FALSE
    /\ configGeral = NoDoc
    /\ statusAspersor1 = NoDoc
    /\ toggleClicks = 0
    /\ initialIsOn = FALSE
    /\ authWait = <<>>
    /\ pending = <<>>
    /\ alerts = {}
    /\ dashboard \in {"weekdays", "minimumOnly"}
    /\ hora = <<>>
    /\ duracao = InitDuracao
    /\ days = InitDays
    /\ agendamentos = {}
    /\ nextId = 0
    /\ GardenAbsent
    /\ CardsConstructed
    /\ OthersIdle

NextAgenda ==
    \/ \E value \in HoraInputs : setHora(value)
    \/ \E value \in DuracaoInputs : setDuracao(value)
    \/ addAgendamento
    \/ addAgendamento_part001
    \/ AuthResolved
    \/ AgendaWriteApplied
    \/ WriteRejected

SpecAgenda == InitAgenda /\ [][NextAgenda]_vars

-----------------------------------------------------------------------------
(* Two-valve dashboard (src/App.jsx): authentication, the garden document,  *)
(* its listeners, the valve buttons, the mock sensor button and the         *)
(* schedule list.  The lastUpdated / createdAt timestamps are left out.     *)

Uid == "uid"
GardenDoc == "garden/main"
SchedulesPath == "garden/main/schedules"
ValveIds == {"valve1", "valve2"}

\* Banner texts of setError.
AuthFailed == "Falha na autenticacao. Funcionalidade limitada."
EnsureFailed == "Erro ao inicializar dados no Firestore."
GardenFetchFailed == "Erro ao buscar dados da horta."
NoTimeSelected == "Por favor, selecione um horario."
AddFailed == "Erro ao adicionar agendamento."

\* The document ensureFirestoreData creates.
DefaultSoilMoisture == 50
DefaultTemperature == 22
DefaultHumidity == 60
DefaultGarden ==
    [exists |-> TRUE,
     sensors |-> [soilMoisture |-> DefaultSoilMoisture,
                  temperature |-> DefaultTemperature,
                  humidity |-> DefaultHumidity],
     valves |-> ValvesOff]

\* Readings updateMockSensorData can draw: the ends of the three ranges,
\* Math.floor(Math.random() * 101), ... * 15) + 15, ... * 51) + 40.
MockSoilMax == 100
MockTempMin == 15
MockTempMax == 29
MockHumMin == 40
MockHumMax == 90
MockReadings ==
    {[soilMoisture |-> 0, temperature |-> MockTempMin, humidity |-> MockHumMin],
     [soilMoisture |-> MockSoilMax, temperature |-> MockTempMax, humidity |-> MockHumMax]}

\* Values of the <input type="time">: empty or a time of day.
GardenTimes == {"06:00", "18:30"}

\* a.time.localeCompare(b.time) on times of day: the order of the clock.
TimeRank(t) == CASE t = "06:00" -> 1 [] t = "18:30" -> 2 [] OTHER -> 0

\* querySnapshot.forEach in document order, then the stable sort by time.
RECURSIVE SortByTime(_)
SortByTime(docs) ==
    IF docs = {} THEN <<>>
    ELSE LET first == CHOOSE d \in docs :
                 \A o \in docs : \/ TimeRank(d.time) < TimeRank(o.time)
                                 \/ TimeRank(d.time) = TimeRank(o.time) /\ d.id <= o.id
         IN <<first>> \o SortByTime(docs \ {first})

\* The dashboard is rendered (not the spinner) and can be clicked.
Visible == mounted /\ isAuthReady /\ ~isLoading

\* useEffect(..., []): subscribes to the authentication state.
authEffect ==
    /\ mounted
    /\ authListening = "notYet"
    /\ IF ~firebaseUp
         THEN /\ isAuthReady' = TRUE
              /\ isLoading' = FALSE
              /\ authListening' = "off"
         ELSE /\ authListening' = "on"
              /\ UNCHANGED <<isAuthReady, isLoading>>
    /\ UNCHANGED <<firebaseUp, mounted, authEvent, signInPending, userId, error,
                   effectDeps, ensurePc, subscribed, sensorData, valveStates,
                   gardenMain, newSchedule, schedules, schedulesCol, scheduleIds>>
    /\ UNCHANGED <<controlVars, callVars, agendaVars, cardVars, otherVars>>

\* The listener of onAuthStateChanged receives the current user.
onAuthStateChanged ==
    /\ authListening = "on"
    /\ authEvent # "none"
    /\ authEvent' = "none"
    /\ IF authEvent = "user"
         THEN /\ userId' = Uid
              /\ isAuthReady' = TRUE
              /\ UNCHANGED signInPending
         ELSE /\ signInPending' = TRUE
              /\ UNCHANGED <<userId, isAuthReady>>
    /\ UNCHANGED <<firebaseUp, mounted, authListening, isLoading, error,
                   effectDeps, ensurePc, subscribed, sensorData, valveStates,
                   gardenMain, newSchedule, schedules, schedulesCol, scheduleIds>>
    /\ UNCHANGED <<controlVars, callVars, agendaVars, cardVars, otherVars>>

\* signInWithCustomToken / signInAnonymously resolves: the auth state changes.
signInResolved ==
    /\ signInPending
    /\ signInPending' = FALSE
    /\ authEvent' = "user"
    /\ UNCHANGED <<firebaseUp, mounted, authListening, userId, isAuthReady, isLoading,
                   error, effectDeps, ensurePc, subscribed, sensorData, valveStates,
                   gardenMain, newSchedule, schedules, schedulesCol, scheduleIds>>
    /\ UNCHANGED <<controlVars, callVars, agendaVars, cardVars, otherVars>>

\* Mutant of signInRejected: the catch block sets the banner and forgets
\* setIsAuthReady(true).
signInRejected_notReady ==
    /\ signInPending
    /\ signInPending' = FALSE
    /\ error' = AuthFailed
    /\ UNCHANGED <<firebaseUp, mounted, authListening, authEvent, userId, isAuthReady,
                   isLoading, effectDeps, ensurePc, subscribed, sensorData,
                   valveStates, gardenMain, newSchedule, schedules, schedulesCol,
                   scheduleIds>>
    /\ UNCHANGED <<controlVars, callVars, agendaVars, cardVars, otherVars>>

\* The sign-in rejects: the catch block of the listener.
signInRejected ==
    /\ signInPending
    /\ signInPending' = FALSE
    /\ error' = AuthFailed
    /\ isAuthReady' = TRUE
    /\ UNCHANGED <<firebaseUp, mounted, authListening, authEvent, userId, isLoading,
                   effectDeps, ensurePc, subscribed, sensorData, valveStates,
                   gardenMain, newSchedule, schedules, schedulesCol, scheduleIds>>
    /\ UNCHANGED <<controlVars, callVars, agendaVars, cardVars, otherVars>>

\* useEffect(..., [isAuthReady, userId, ensureFirestoreData]): runs after a
\* render in which a dependency changed; starts ensureFirestoreData.
dataEffect ==
    /\ mounted
    /\ effectDeps # <<isAuthReady, userId>>
    /\ effectDeps' = <<isAuthReady, userId>>
    /\ IF ~firebaseUp \/ ~isAuthReady \/ userId = NoUser
         THEN /\ isLoading' = IF isAuthReady THEN FALSE ELSE isLoading
              /\ UNCHANGED ensurePc
         ELSE /\ ensurePc' = "getDoc"
              /\ UNCHANGED isLoading
    /\ UNCHANGED <<firebaseUp, mounted, authListening, authEvent, signInPending,
                   userId, isAuthReady, error, subscribed, sensorData, valveStates,
                   gardenMain, newSchedule, schedules, schedulesCol, scheduleIds>>
    /\ UNCHANGED <<controlVars, callVars, agendaVars, cardVars, otherVars>>

\* Mutant of DocMissing: the default document is written whatever getDoc found.
DocMissing_always(docSnap) == TRUE

\* !docSnap.exists()
DocMissing(docSnap) == ~docSnap.exists

\* ensureFirestoreData after `await getDoc`: writes the default document if
\* none was found; otherwise it is done and the .then callback attaches the
\* two listeners.
ensureFirestoreData ==
    /\ ensurePc = "getDoc"
    /\ IF DocMissing(gardenMain)
         THEN /\ pending' = Append(pending, [op |-> "ensureFirestoreData",
                                             target |-> GardenDoc,
                                             patch |-> DefaultGarden])
              /\ ensurePc' = "setDoc"
              /\ UNCHANGED subscribed
         ELSE /\ ensurePc' = "done"
              /\ subscribed' = TRUE
              /\ UNCHANGED pending
    /\ UNCHANGED <<firebaseUp, mounted, authListening, authEvent, signInPending,
                   userId, isAuthReady, isLoading, error, effectDeps, sensorData,
                   valveStates, gardenMain, newSchedule, schedules, schedulesCol,
                   scheduleIds>>
    /\ UNCHANGED <<controlVars, authWait, alerts, agendaVars, cardVars, otherVars>>

\* getDoc rejects: the catch block of ensureFirestoreData, then the .then
\* callback attaches the listeners all the same.
ensureGetDocRejected ==
    /\ ensurePc = "getDoc"
    /\ error' = EnsureFailed
    /\ ensurePc' = "done"
    /\ subscribed' = TRUE
    /\ UNCHANGED <<firebaseUp, mounted, authListening, authEvent, signInPending,
                   userId, isAuthReady, isLoading, effectDeps, sensorData,
                   valveStates, gardenMain, newSchedule, schedules, schedulesCol,
                   scheduleIds>>
    /\ UNCHANGED <<controlVars, callVars, agendaVars, cardVars, otherVars>>

\* Mutant of ApplyGardenWrite: the valve update replaces the whole document.
ApplyGardenWrite_replace(stored, task) ==
    CASE task.op = "ensureFirestoreData" -> task.patch
      [] task.op = "handleValveToggle" ->
            [exists |-> TRUE,
             valves |-> [ValvesOff EXCEPT ![task.patch.valveId] = task.patch.value]]
      [] task.op = "updateMockSensorData" ->
            [stored EXCEPT !.sensors = task.patch.sensors]

\* Mutant of ApplyGardenWrite: the toggle writes the valves map with the one
\* valve in it, the mock update a document with the sensors only.
ApplyGardenWrite_wholeField(stored, task) ==
    CASE task.op = "ensureFirestoreData" -> task.patch
      [] task.op = "handleValveToggle" ->
            [stored EXCEPT !.valves = [ValvesOff EXCEPT ![task.patch.valveId] = task.patch.value]]
      [] task.op = "updateMockSensorData" ->
            [stored EXCEPT !.sensors = task.patch.sensors, !.valves = ValvesOff]

\* What the server stores for a write to the garden document: setDoc replaces
\* it, updateDoc replaces the named (nested) field only.
ApplyGardenWrite(stored, task) ==
    CASE task.op = "ensureFirestoreData" -> task.patch
      [] task.op = "handleValveToggle" ->
            [stored EXCEPT !.valves[task.patch.valveId] = task.patch.value]
      [] task.op = "updateMockSensorData" ->
            [stored EXCEPT !.sensors = task.patch.sensors]

\* The server applies the oldest write, to the garden document (updateDoc
\* needs the document to exist) or to the schedules; the handler resumes.
GardenWriteApplied ==
    /\ pending # <<>>
    /\ LET task == Head(pending) IN
        /\ task.target \in {GardenDoc, SchedulesPath}
        /\ task.op \in {"handleValveToggle", "updateMockSensorData"} => gardenMain.exists
        /\ pending' = Tail(pending)
        /\ gardenMain' = IF task.target = GardenDoc
                           THEN ApplyGardenWrite(gardenMain, task)
                           ELSE gardenMain
        /\ IF task.op = "ensureFirestoreData"
             THEN ensurePc' = "done" /\ subscribed' = TRUE
             ELSE UNCHANGED <<ensurePc, subscribed>>
        /\ IF task.op = "handleAddSchedule"
             THEN /\ schedulesCol' = schedulesCol \cup {task.patch}
                  /\ newSchedule' = EmptySchedule
                  /\ error' = NoError
             ELSE /\ schedulesCol' = IF task.op = "handleDeleteSchedule"
                                       THEN {d \in schedulesCol : d.id # task.patch.id}
                                       ELSE schedulesCol
                  /\ UNCHANGED <<newSchedule, error>>
    /\ UNCHANGED <<firebaseUp, mounted, authListening, authEvent, signInPending,
                   userId, isAuthReady, isLoading, effectDeps, sensorData,
                   valveStates, schedules, scheduleIds>>
    /\ UNCHANGED <<controlVars, authWait, alerts, agendaVars, cardVars, otherVars>>

\* The server rejects the oldest write: the catch block of the handler that
\* awaits it.  Only ensureFirestoreData and handleAddSchedule call setError;
\* the other handlers call console.error and nothing else.
GardenWriteRejected ==
    /\ pending # <<>>
    /\ LET task == Head(pending) IN
        /\ task.target \in {GardenDoc, SchedulesPath}
        /\ pending' = Tail(pending)
        /\ error' = CASE task.op = "ensureFirestoreData" -> EnsureFailed
                      [] task.op = "handleAddSchedule" -> AddFailed
                      [] OTHER -> error
        /\ IF task.op = "ensureFirestoreData"
             THEN ensurePc' = "done" /\ subscribed' = TRUE
             ELSE UNCHANGED <<ensurePc, subscribed>>
    /\ UNCHANGED <<firebaseUp, mounted, authListening, authEvent, signInPending,
                   userId, isAuthReady, isLoading, effectDeps, sensorData,
                   valveStates, gardenMain, newSchedule, schedules, schedulesCol,
                   scheduleIds>>
    /\ UNCHANGED <<controlVars, authWait, alerts, agendaVars, cardVars, otherVars>>

\* Listener of the garden document: called with the stored document.
unsubGarden ==
    /\ subscribed
    /\ IF gardenMain.exists
         THEN /\ sensorData' = IF Has(gardenMain, "sensors")
                                 THEN gardenMain.sensors ELSE ZeroSensors
              /\ valveStates' = IF Has(gardenMain, "valves")
                                  THEN gardenMain.valves ELSE ValvesOff
         ELSE UNCHANGED <<sensorData, valveStates>>
    /\ isLoading' = FALSE
    /\ UNCHANGED <<firebaseUp, mounted, authListening, authEvent, signInPending,
                   userId, isAuthReady, error, effectDeps, ensurePc, subscribed,
                   gardenMain, newSchedule, schedules, schedulesCol, scheduleIds>>
    /\ UNCHANGED <<controlVars, callVars, agendaVars, cardVars, otherVars>>

\* Error callback of the garden listener.
unsubGardenError ==
    /\ subscribed
    /\ error' = GardenFetchFailed
    /\ isLoading' = FALSE
    /\ UNCHANGED <<firebaseUp, mounted, authListening, authEvent, signInPending,
                   userId, isAuthReady, effectDeps, ensurePc, subscribed, sensorData,
                   valveStates, gardenMain, newSchedule, schedules, schedulesCol,
                   scheduleIds>>
    /\ UNCHANGED <<controlVars, callVars, agendaVars, cardVars, otherVars>>

\* Listener of the schedules: the stored schedules, sorted by time.
unsubSchedules ==
    /\ subscribed
    /\ schedules' = SortByTime(schedulesCol)
    /\ UNCHANGED <<firebaseUp, mounted, authListening, authEvent, signInPending,
                   userId, isAuthReady, isLoading, error, effectDeps, ensurePc,
                   subscribed, sensorData, valveStates, gardenMain, newSchedule,
                   schedulesCol, scheduleIds>>
    /\ UNCHANGED <<controlVars, callVars, agendaVars, cardVars, otherVars>>

\* What a handler that issues one write leaves alone.
handlerKeeps == <<firebaseUp, mounted, authListening, authEvent, signInPending,
                  userId, isAuthReady, isLoading, effectDeps, ensurePc, subscribed,
                  sensorData, valveStates, gardenMain, schedules, schedulesCol>>

\* handleValveToggle(valveId): updateDoc of valves.<valveId>.
handleValveToggle(valveId) ==
    /\ Visible
    /\ IF ~firebaseUp \/ userId = NoUser
         THEN UNCHANGED pending
         ELSE /\ CanStartCall
              /\ pending' = Append(pending,
                     [op |-> "handleValveToggle", target |-> GardenDoc,
                      patch |-> [valveId |-> valveId, value |-> ~valveStates[valveId]]])
    /\ UNCHANGED <<handlerKeeps, error, newSchedule, scheduleIds>>
    /\ UNCHANGED <<controlVars, authWait, alerts, agendaVars, cardVars, otherVars>>

\* updateMockSensorData: updateDoc of sensors with random readings.
updateMockSensorData(newSensorData) ==
    /\ Visible
    /\ IF ~firebaseUp
         THEN UNCHANGED pending
         ELSE /\ CanStartCall
              /\ pending' = Append(pending,
                     [op |-> "updateMockSensorData", target |-> GardenDoc,
                      patch |-> [sensors |-> newSensorData]])
    /\ UNCHANGED <<handlerKeeps, error, newSchedule, scheduleIds>>
    /\ UNCHANGED <<controlVars, authWait, alerts, agendaVars, cardVars, otherVars>>

\* onChange of the time input and of the valve select.
setNewSchedule(value) ==
    /\ Visible
    /\ value # newSchedule
    /\ value.time = newSchedule.time \/ value.valveId = newSchedule.valveId
    /\ newSchedule' = value
    /\ UNCHANGED <<handlerKeeps, error, pending, scheduleIds>>
    /\ UNCHANGED <<controlVars, authWait, alerts, agendaVars, cardVars, otherVars>>

\* handleAddSchedule: addDoc of { time, valveId } under a fresh id.
handleAddSchedule ==
    /\ Visible
    /\ IF ~firebaseUp \/ newSchedule.time = ""
         THEN /\ error' = NoTimeSelected
              /\ UNCHANGED <<pending, scheduleIds>>
         ELSE /\ CanStartCall
              /\ scheduleIds < MaxDocs
              /\ scheduleIds' = scheduleIds + 1
              /\ pending' = Append(pending,
                     [op |-> "handleAddSchedule", target |-> SchedulesPath,
                      patch |-> [id |-> scheduleIds + 1, time |-> newSchedule.time,
                                 valveId |-> newSchedule.valveId]])
              /\ UNCHANGED error
    /\ UNCHANGED <<handlerKeeps, newSchedule>>
    /\ UNCHANGED <<controlVars, authWait, alerts, agendaVars, cardVars, otherVars>>

\* handleDeleteSchedule(scheduleId), from the button of a listed schedule.
\* Mutant of scheduleDocRef: the reference is to the first listed schedule.
scheduleDocRef_first(scheduleId) == [id |-> schedules[1].id]

\* doc(db, getSchedulesPath(), scheduleId)
scheduleDocRef(scheduleId) == [id |-> scheduleId]

handleDeleteSchedule(scheduleId) ==
    /\ Visible
    /\ \E i \in DOMAIN schedules : schedules[i].id = scheduleId
    /\ IF ~firebaseUp
         THEN UNCHANGED pending
         ELSE /\ CanStartCall
              /\ pending' = Append(pending,
                     [op |-> "handleDeleteSchedule", target |-> SchedulesPath,
                      patch |-> scheduleDocRef(scheduleId)])
    /\ UNCHANGED <<handlerKeeps, error, newSchedule, scheduleIds>>
    /\ UNCHANGED <<controlVars, authWait, alerts, agendaVars, cardVars, otherVars>>

\* The component is unmounted: the cleanup of the authentication effect
\* unsubscribes; the data effect returned no cleanup (the function returned
\* inside .then() is discarded), so the two listeners stay attached.
unmount ==
    /\ mounted
    /\ authListening # "notYet"
    /\ mounted' = FALSE
    /\ authListening' = "off"
    /\ UNCHANGED <<firebaseUp, authEvent, signInPending, userId, isAuthReady,
                   isLoading, error, effectDeps, ensurePc, subscribed, sensorData,
                   valveStates, gardenMain, newSchedule, schedules, schedulesCol,
                   scheduleIds>>
    /\ UNCHANGED <<controlVars, callVars, agendaVars, cardVars, otherVars>>

\* The ESP32 stores a reading in the garden document.
FirmwareReading == [soilMoisture |-> 35, temperature |-> 25, humidity |-> 55]

ExternalSensorWrite ==
    /\ gardenMain.exists
    /\ gardenMain' = [gardenMain EXCEPT !.sensors = FirmwareReading]
    /\ UNCHANGED <<firebaseUp, mounted, authListening, authEvent, signInPending,
                   userId, isAuthReady, isLoading, error, effectDeps, ensurePc,
                   subscribed, sensorData, valveStates, newSchedule, schedules,
                   schedulesCol, scheduleIds>>
    /\ UNCHANGED <<controlVars, callVars, agendaVars, cardVars, otherVars>>

InitGarden ==
    /\ GardenConstructed
    /\ firebaseUp \in BOOLEAN
    /\ authEvent \in {"user", "noUser"}
    /\ gardenMain \in {NoDoc, DefaultGarden}
    /\ schedulesCol \in {{}, {StoredSchedule}}
    /\ isAutoMode = FALSE
    /\ minHumidity = InitMinHumidity
    /\ maxHumidity = InitMaxHumidity
    /\ aspersorLigado = FALSE
    /\ listening = FALSE
    /\ configGeral = NoDoc
    /\ statusAspersor1 = NoDoc
    /\ toggleClicks = 0
    /\ initialIsOn = FALSE
    /\ authWait = <<>>
    /\ pending = <<>>
    /\ alerts = {}
    /\ dashboard = "twoValves"
    /\ hora = <<>>
    /\ duracao = InitDuracao
    /\ days = InitDays
    /\ agendamentos = {}
    /\ nextId = 0
    /\ CardsConstructed
    /\ OthersIdle

\* Authentication, the two effects and the listeners of the component.
GardenLifecycle ==
    \/ authEffect
    \/ onAuthStateChanged
    \/ signInResolved
    \/ signInRejected
    \/ dataEffect
    \/ ensureFirestoreData
    \/ ensureGetDocRejected
    \/ GardenWriteApplied
    \/ GardenWriteRejected
    \/ unsubGarden
    \/ unsubGardenError
    \/ unsubSchedules
    \/ unmount

\* The garden document: valves, sensors.
NextGarden ==
    \/ GardenLifecycle
    \/ \E valveId \in ValveIds : handleValveToggle(valveId)
    \/ \E newSensorData \in MockReadings : updateMockSensorData(newSensorData)
    \/ ExternalSensorWrite

SpecGarden == InitGarden /\ [][NextGarden]_vars

\* The schedule list.
NextGardenSchedules ==
    \/ GardenLifecycle
    \/ \E time \in GardenTimes \cup {""}, valveId \in ValveIds :
           setNewSchedule([time |-> time, valveId |-> valveId])
    \/ handleAddSchedule
    \/ \E scheduleId \in 0..MaxDocs : handleDeleteSchedule(scheduleId)

SpecGardenSchedules == InitGarden /\ [][NextGardenSchedules]_vars

\* The document the ESP32 (or another client) creates when it finds none.
FirmwareGarden ==
    [exists |-> TRUE,
     sensors |-> FirmwareReading,
     valves |-> [valve1 |-> TRUE, valve2 |-> FALSE]]

\* The ESP32 or another client creates the garden document.
ExternalGardenCreate ==
    /\ ~gardenMain.exists
    /\ gardenMain' = FirmwareGarden
    /\ UNCHANGED <<firebaseUp, mounted, authListening, authEvent, signInPending,
                   userId, isAuthReady, isLoading, error, effectDeps, ensurePc,
                   subscribed, sensorData, valveStates, newSchedule, schedules,
                   schedulesCol, scheduleIds>>
    /\ UNCHANGED <<controlVars, callVars, agendaVars, cardVars, otherVars>>

\* The initialisation of the garden document next to other writers of it.
NextGardenInit ==
    \/ GardenLifecycle
    \/ ExternalGardenCreate
    \/ ExternalSensorWrite

SpecGardenInit == InitGarden /\ [][NextGardenInit]_vars

\* The component stays mounted: authentication, the two effects, the
\* initialisation and the listeners, next to other writers of the document.
NextGardenLoading ==
    \/ authEffect
    \/ onAuthStateChanged
    \/ signInResolved
    \/ signInRejected
    \/ dataEffect
    \/ ensureFirestoreData
    \/ ensureGetDocRejected
    \/ GardenWriteApplied
    \/ GardenWriteRejected
    \/ unsubGarden
    \/ unsubGardenError
    \/ unsubSchedules
    \/ ExternalGardenCreate
    \/ ExternalSensorWrite

\* Effects run after the render that scheduled them, the auth listener is
\* called with the auth state, every started call (sign-in, getDoc, setDoc)
\* completes one way or the other, and an attached garden listener delivers a
\* snapshot or an error.
FairGardenLoading ==
    /\ WF_vars(authEffect)
    /\ WF_vars(onAuthStateChanged)
    /\ WF_vars(signInResolved \/ signInRejected)
    /\ WF_vars(dataEffect)
    /\ WF_vars(ensureFirestoreData \/ ensureGetDocRejected)
    /\ WF_vars(GardenWriteApplied \/ GardenWriteRejected)
    /\ WF_vars(unsubGarden \/ unsubGardenError)

SpecGardenLoading == InitGarden /\ [][NextGardenLoading]_vars /\ FairGardenLoading

-----------------------------------------------------------------------------
(* Hooks dashboard (README.md, second listing): AutoIrrigationCard over     *)
(* useAutoSettings, ScheduleCard over useSchedule.  The cards keep their    *)
(* own copies (minHumidity, maxHumidity, autoModeEnabled; days, start,      *)
(* duration) of the hook state and reset them whenever the hook state is    *)
(* replaced.  The updatedAt / createdAt timestamps are left out.            *)

CardMinLow == 10
CardMinHigh == 90
CardMaxLow == 10
CardMaxHigh == 100

\* Positions of <input type="range" min={10} max={90}> and of
\* <input type="range" min={10} max={100}>.
CardMinInputs == {CardMinLow, InitSettingsMax, CardMinHigh}
CardMaxInputs == {CardMaxLow, CardMaxHigh}

\* What the cards' handlers leave alone outside their own state.
nonCard == <<isAutoMode, aspersorLigado, listening, statusAspersor1, toggleClicks, authWait,
             dashboard, hora, duracao, agendamentos, nextId, gardenVars, otherVars>>

\* onChange of the checkbox.
setAutoModeEnabled(checked) ==
    /\ checked # autoModeEnabled
    /\ autoModeEnabled' = checked
    /\ UNCHANGED <<minHumidity, maxHumidity, configGeral, pending, alerts, days,
                   settings, schedule, start, duration, agendamentoAspersor1, nonCard>>

handleMinChange(value) ==
    /\ minHumidity' = value
    /\ maxHumidity' = IF value > maxHumidity THEN value ELSE maxHumidity
    /\ UNCHANGED <<autoModeEnabled, configGeral, pending, alerts, days,
                   settings, schedule, start, duration, agendamentoAspersor1, nonCard>>

handleMaxChange(value) ==
    /\ maxHumidity' = value
    /\ minHumidity' = IF value < minHumidity THEN value ELSE minHumidity
    /\ UNCHANGED <<autoModeEnabled, configGeral, pending, alerts, days,
                   settings, schedule, start, duration, agendamentoAspersor1, nonCard>>

\* Mutant of SaveBlocked: the save button checks nothing.
SaveBlocked_never(min, max) == FALSE

\* if (maxHumidity < minHumidity) { alert(...); return; }
SaveBlocked(min, max) == max < min

\* useAutoSettings.save(newSet) up to `await setDoc(..., { merge: true })`.
useAutoSettings_save(newSet) ==
    pending' = Append(pending, [op |-> "useAutoSettings.save",
                                target |-> "configuracao/geral",
                                patch |-> newSet])

\* AutoIrrigationCard.save: the 'Salvar Configuracoes' button.
AutoIrrigationCard_save ==
    /\ IF SaveBlocked(minHumidity, maxHumidity)
         THEN /\ alerts' = alerts \cup
                    {"A umidade maxima nao pode ser menor que a umidade minima."}
              /\ UNCHANGED pending
         ELSE /\ CanStartCall
              /\ useAutoSettings_save([autoModeEnabled |-> autoModeEnabled,
                                       minHumidity |-> minHumidity,
                                       maxHumidity |-> maxHumidity])
              /\ UNCHANGED alerts
    /\ UNCHANGED <<autoModeEnabled, minHumidity, maxHumidity, configGeral, days,
                   settings, schedule, start, duration, agendamentoAspersor1, nonCard>>

\* setSettings(value), then the card's useEffect([settings]) copies it.
setSettings(value) ==
    /\ settings' = value
    /\ autoModeEnabled' = value.autoModeEnabled
    /\ minHumidity' = value.minHumidity
    /\ maxHumidity' = value.maxHumidity

\* setDoc resolves: the document is merged, save goes on to setSettings(newSet).
useAutoSettings_saveResolved ==
    /\ pending # <<>>
    /\ Head(pending).op = "useAutoSettings.save"
    /\ configGeral' = MergeDoc(configGeral, Head(pending).patch)
    /\ setSettings(Head(pending).patch)
    /\ pending' = Tail(pending)
    /\ UNCHANGED <<alerts, days, schedule, start, duration, agendamentoAspersor1, nonCard>>

\* setDoc rejects: save has no catch, setSettings is not reached.
useAutoSettings_saveRejected ==
    /\ pending # <<>>
    /\ Head(pending).op = "useAutoSettings.save"
    /\ pending' = Tail(pending)
    /\ UNCHANGED <<autoModeEnabled, minHumidity, maxHumidity, configGeral, alerts, days,
                   settings, schedule, start, duration, agendamentoAspersor1, nonCard>>

\* useAutoSettings: the listener of configuracao/geral.
useAutoSettings_onSnapshot ==
    /\ IF configGeral.exists
         THEN setSettings(
                [autoModeEnabled |-> IF Has(configGeral, "autoModeEnabled")
                                       THEN configGeral.autoModeEnabled ELSE TRUE,
                 minHumidity |-> IF Has(configGeral, "minHumidity")
                                   THEN configGeral.minHumidity ELSE InitSettingsMin,
                 maxHumidity |-> IF Has(configGeral, "maxHumidity")
                                   THEN configGeral.maxHumidity ELSE InitSettingsMax])
         ELSE UNCHANGED <<settings, autoModeEnabled, minHumidity, maxHumidity>>
    /\ UNCHANGED <<configGeral, pending, alerts, days, schedule, start, duration,
                   agendamentoAspersor1, nonCard>>

\* Another client stores a minimum in configuracao/geral.
ExternalSettingsPatches == {[minHumidity |-> CardMinHigh]}

ExternalSettingsWrite(patch) ==
    /\ configGeral' = MergeDoc(configGeral, patch)
    /\ UNCHANGED <<autoModeEnabled, minHumidity, maxHumidity, pending, alerts, days,
                   settings, schedule, start, duration, agendamentoAspersor1, nonCard>>

InitCards ==
    /\ CardsConstructed
    /\ OthersIdle
    /\ GardenAbsent
    /\ isAutoMode = FALSE
    /\ minHumidity = InitSettings.minHumidity
    /\ maxHumidity = InitSettings.maxHumidity
    /\ aspersorLigado = FALSE
    /\ listening = FALSE
    /\ configGeral = NoDoc
    /\ statusAspersor1 = NoDoc
    /\ toggleClicks = 0
    /\ initialIsOn = FALSE
    /\ authWait = <<>>
    /\ pending = <<>>
    /\ alerts = {}
    /\ dashboard = "hooks"
    /\ hora = <<>>
    /\ duracao = InitDuracao
    /\ days = InitSchedule.days
    /\ agendamentos = {}
    /\ nextId = 0

NextAutoCard ==
    \/ \E checked \in BOOLEAN : setAutoModeEnabled(checked)
    \/ \E value \in CardMinInputs : handleMinChange(value)
    \/ \E value \in CardMaxInputs : handleMaxChange(value)
    \/ AutoIrrigationCard_save
    \/ useAutoSettings_saveResolved
    \/ useAutoSettings_saveRejected
    \/ useAutoSettings_onSnapshot
    \/ \E patch \in ExternalSettingsPatches : ExternalSettingsWrite(patch)

SpecAutoCard == InitCards /\ [][NextAutoCard]_vars

-----------------------------------------------------------------------------
(* Hooks dashboard: ScheduleCard over useSchedule *)

labels == <<"Dom", "Seg", "Ter", "Qua", "Qui", "Sex", "Sab">>

\* The day button that is clicked (position in labels), the values typed
\* into the time field (empty, or a time of day) and into the number field
\* (Number("") is 0).
DayInputs == {2}
StartInputs == {<<>>, <<"0", "9", ":", "0", "0">>}
DurationInputs == {0, 1}

\* array.filter: the elements that pass, in order.
RECURSIVE Filter(_, _)
Filter(list, keep) ==
    IF list = <<>> THEN <<>>
    ELSE (IF keep[1] THEN <<Head(list)>> ELSE <<>>) \o Filter(Tail(list), Tail(keep))

\* Mutant of Includes: only the first stored label is looked at.
Includes_first(list, d) == list # <<>> /\ list[1] = d

\* data.days?.includes(d)
Includes(list, d) == \E i \in DOMAIN list : list[i] = d

\* What the schedule card's handlers leave alone outside their own state.
nonSchedule == <<minHumidity, maxHumidity, configGeral, autoModeEnabled, settings, nonCard>>

toggleDay(i) ==
    /\ days' = [days EXCEPT ![i] = ~@]
    /\ UNCHANGED <<start, duration, schedule, agendamentoAspersor1, pending, alerts,
                   nonSchedule>>

setStart(value) ==
    /\ value # start
    /\ start' = value
    /\ UNCHANGED <<days, duration, schedule, agendamentoAspersor1, pending, alerts,
                   nonSchedule>>

setDuration(value) ==
    /\ value # duration
    /\ duration' = value
    /\ UNCHANGED <<days, start, schedule, agendamentoAspersor1, pending, alerts,
                   nonSchedule>>

\* Mutant of useSchedule_save: the selection is written without the check.
useSchedule_save_unchecked(newSched) ==
    /\ CanStartCall
    /\ pending' = Append(pending,
           [op |-> "useSchedule.save", target |-> "agendamentos/aspersor1",
            patch |-> [aspersorId |-> "aspersor1", time |-> newSched.time,
                       minutes |-> newSched.minutes,
                       days |-> Filter(labels, newSched.days)]])
    /\ UNCHANGED alerts

\* useSchedule.save(newSched): refuses an empty selection of days, otherwise
\* goes up to `await setDoc(doc(db, "agendamentos", "aspersor1"), ...)`.
useSchedule_save(newSched) ==
    LET diasSelecionados == Filter(labels, newSched.days) IN
    IF Len(diasSelecionados) = 0
      THEN /\ alerts' = alerts \cup {"Selecione pelo menos um dia da semana!"}
           /\ UNCHANGED pending
      ELSE /\ CanStartCall
           /\ pending' = Append(pending,
                  [op |-> "useSchedule.save", target |-> "agendamentos/aspersor1",
                   patch |-> [aspersorId |-> "aspersor1", time |-> newSched.time,
                              minutes |-> newSched.minutes, days |-> diasSelecionados]])
           /\ UNCHANGED alerts

\* ScheduleCard.save: the 'Salvar Programacao' button.
ScheduleCard_save ==
    /\ useSchedule_save([days |-> days, time |-> start, minutes |-> duration])
    /\ UNCHANGED <<days, start, duration, schedule, agendamentoAspersor1, nonSchedule>>

\* setDoc (no merge) resolves: the document is replaced.
useSchedule_saveResolved ==
    /\ pending # <<>>
    /\ Head(pending).op = "useSchedule.save"
    /\ agendamentoAspersor1' = Head(pending).patch @@ [exists |-> TRUE]
    /\ pending' = Tail(pending)
    /\ UNCHANGED <<days, start, duration, schedule, alerts, nonSchedule>>

\* setDoc rejects: save has no catch.
useSchedule_saveRejected ==
    /\ pending # <<>>
    /\ Head(pending).op = "useSchedule.save"
    /\ pending' = Tail(pending)
    /\ UNCHANGED <<days, start, duration, schedule, agendamentoAspersor1, alerts,
                   nonSchedule>>

\* useSchedule: the listener of agendamentos/aspersor1 replaces the schedule,
\* then the card's useEffect([schedule]) copies it.
useSchedule_onSnapshot ==
    /\ IF ~agendamentoAspersor1.exists
         THEN UNCHANGED <<schedule, days, start, duration>>
         ELSE LET data == agendamentoAspersor1
                  next == [days |-> [i \in DOMAIN labels |-> Includes(data.days, labels[i])],
                           time |-> IF data.time = <<>> THEN DefaultTime ELSE data.time,
                           minutes |-> data.minutes,
                           aspersorId |-> data.aspersorId]
              IN /\ schedule' = next
                 /\ days' = next.days
                 /\ start' = next.time
                 /\ duration' = IF next.minutes = 0 THEN DefaultMinutes ELSE next.minutes
    /\ UNCHANGED <<agendamentoAspersor1, pending, alerts, nonSchedule>>

NextScheduleCard ==
    \/ \E i \in DayInputs : toggleDay(i)
    \/ \E value \in StartInputs : setStart(value)
    \/ \E value \in DurationInputs : setDuration(value)
    \/ ScheduleCard_save
    \/ useSchedule_saveResolved
    \/ useSchedule_saveRejected
    \/ useSchedule_onSnapshot

SpecScheduleCard == InitCards /\ [][NextScheduleCard]_vars

\* The two dashboards with a weekday selection: the form of the weekday
\* dashboard and the schedule card of the hooks dashboard.
InitWeekdays ==
    \/ InitAgenda /\ dashboard = "weekdays"
    \/ InitCards

NextWeekdays ==
    \/ /\ dashboard = "weekdays"
       /\ \/ \E value \in WeekdayHoraInputs : setHora(value)
          \/ \E value \in DuracaoInputs : setDuracao(value)
          \/ \E v \in WeekdayInputs : setDays(v)
          \/ addAgendamento
          \/ AuthResolved
          \/ AgendaWriteApplied
          \/ WriteRejected
    \/ /\ dashboard = "hooks"
       /\ \/ \E i \in DayInputs : toggleDay(i)
          \/ ScheduleCard_save
          \/ useSchedule_saveResolved
          \/ useSchedule_saveRejected
          \/ useSchedule_onSnapshot

SpecWeekdays == InitWeekdays /\ [][NextWeekdays]_vars

\* The schedule card holding any selection of the seven days, nothing stored.
InitSelections ==
    /\ CardsConstructed
    /\ OthersIdle
    /\ GardenAbsent
    /\ isAutoMode = FALSE
    /\ minHumidity = InitSettings.minHumidity
    /\ maxHumidity = InitSettings.maxHumidity
    /\ aspersorLigado = FALSE
    /\ listening = FALSE
    /\ configGeral = NoDoc
    /\ statusAspersor1 = NoDoc
    /\ toggleClicks = 0
    /\ initialIsOn = FALSE
    /\ authWait = <<>>
    /\ pending = <<>>
    /\ alerts = {}
    /\ dashboard = "hooks"
    /\ hora = <<>>
    /\ duracao = InitDuracao
    /\ days \in [DOMAIN labels -> BOOLEAN]
    /\ agendamentos = {}
    /\ nextId = 0

\* A selection is saved and read back by the listener.
NextSelections ==
    \/ ScheduleCard_save
    \/ useSchedule_saveResolved
    \/ useSchedule_saveRejected
    \/ useSchedule_onSnapshot

SpecSelections == InitSelections /\ [][NextSelections]_vars

-----------------------------------------------------------------------------
(* Hooks dashboard (README.md, second listing): useDailyAverageHistory, the *)
(* chart of daily averages.  A date is the number of its day: the ISO dates *)
(* of the documents sort (localeCompare) in the order of the days.  The     *)
(* label `${day}/${month}` of a point is left out; a point keeps rawDate.   *)

HistoryWindow == 15
MaxDay == 17
MaxOutages == 1
MaxOddDocs == 1

\* Values stored as a daily average.
MediaInputs == {40}

\* docData.data || d.id
RawDate(d) == IF Has(d, "data") THEN d.data ELSE d.id

\* docData.media when it is there, else docData.umidade.
RawValue(d) == IF Has(d, "media") THEN d.media ELSE d.umidade

\* Number(rawValue) is a number: the document has one of the two fields
\* (Number(undefined) is NaN).
HasMediaNumber(d) == Has(d, "media") \/ Has(d, "umidade")

\* .map(...).filter(Boolean): the documents with a date and a number.
Parsed(docs) ==
    {[rawDate |-> RawDate(d), media |-> RawValue(d)] : d \in {x \in docs : HasMediaNumber(x)}}

\* .sort((a, b) => String(a.rawDate).localeCompare(String(b.rawDate)))
RECURSIVE SortByRawDate(_)
SortByRawDate(entries) ==
    IF entries = {} THEN <<>>
    ELSE LET first == CHOOSE e \in entries : \A o \in entries : e.rawDate <= o.rawDate
         IN <<first>> \o SortByRawDate(entries \ {first})

\* .slice(-n)
SliceLast(list, n) ==
    IF Len(list) <= n THEN list ELSE SubSeq(list, Len(list) - n + 1, Len(list))

\* What the snapshot callback hands to setData.
DailyAverages(docs) ==
    LET sorted == SliceLast(SortByRawDate(Parsed(docs)), HistoryWindow)
    IN [i \in DOMAIN sorted |-> [rawDate |-> sorted[i].rawDate, average |-> sorted[i].media]]

\* What the history leaves alone.
nonHistory == <<controlVars, callVars, agendaVars, gardenVars, cardVars, initialIsOn,
                commandVars, chartVars, hooksVars>>

\* Documents that are not a plain { media } document.
OddDocs == {d \in mediaDiaria : ~Has(d, "media")}

\* The writer of the averages stores the average of the day under the date
\* of the day, as media, as umidade, or with no value; the day ends.
StoreDailyAverage(docData) ==
    /\ today < MaxDay
    /\ Has(docData, "media") \/ Cardinality(OddDocs) < MaxOddDocs
    /\ mediaDiaria' = mediaDiaria \cup {docData @@ [id |-> today]}
    /\ today' = today + 1
    /\ offline' = FALSE
    /\ UNCHANGED <<outages, dailyAverageHistory, nonHistory>>

\* The writer is down: the day ends with no document.
DayWithoutAverage ==
    /\ today < MaxDay
    /\ offline \/ outages < MaxOutages
    /\ today' = today + 1
    /\ offline' = TRUE
    /\ outages' = IF offline THEN outages ELSE outages + 1
    /\ UNCHANGED <<mediaDiaria, dailyAverageHistory, nonHistory>>

\* useDailyAverageHistory: the listener of the collection mediaDiaria.
useDailyAverageHistory_onSnapshot ==
    /\ dailyAverageHistory' = DailyAverages(mediaDiaria)
    /\ UNCHANGED <<today, offline, outages, mediaDiaria, nonHistory>>

InitHistory ==
    /\ ChartConstructed
    /\ currentUser = FALSE
    /\ HistoryConstructed
    /\ HooksConstructed
    /\ comandoAspersor1 = NoDoc
    /\ commandDue = FALSE
    /\ statusDue = FALSE
    /\ CardsConstructed
    /\ GardenAbsent
    /\ isAutoMode = FALSE
    /\ minHumidity = InitSettings.minHumidity
    /\ maxHumidity = InitSettings.maxHumidity
    /\ aspersorLigado = FALSE
    /\ listening = FALSE
    /\ configGeral = NoDoc
    /\ statusAspersor1 = NoDoc
    /\ toggleClicks = 0
    /\ initialIsOn = FALSE
    /\ authWait = <<>>
    /\ pending = <<>>
    /\ alerts = {}
    /\ dashboard = "hooks"
    /\ hora = <<>>
    /\ duracao = InitDuracao
    /\ days = InitSchedule.days
    /\ agendamentos = {}
    /\ nextId = 0

NextHistory ==
    \/ \E media \in MediaInputs :
           \/ StoreDailyAverage([media |-> media])
           \/ StoreDailyAverage([umidade |-> media])
    \/ StoreDailyAverage([valor |-> 0])
    \/ DayWithoutAverage
    \/ useDailyAverageHistory_onSnapshot

SpecHistory == InitHistory /\ [][NextHistory]_vars

-----------------------------------------------------------------------------
(* Command/status dashboard (unnamed/part_002): the button writes the       *)
(* desired state to comandos/aspersor1; the firmware is to apply it and to  *)
(* report the real state in status/aspersor1, which the dashboard listens   *)
(* to.  The listener is called when it is attached and after every change   *)
(* of the document.  Every command write is applied.                        *)

\* What the command/status dashboard leaves alone.
nonCommand == <<isAutoMode, minHumidity, maxHumidity, listening, configGeral,
                toggleClicks, authWait, alerts, agendaVars, gardenVars, cardVars,
                historyVars, initialIsOn, chartVars, hooksVars>>

\* toggleAspersor of part_002: setAspersorLigado(desired), then up to
\* `await setDoc(comandos/aspersor1, ...)`.
toggleAspersor_part002 ==
    /\ CanStartCall
    /\ LET desired == ~aspersorLigado IN
        /\ aspersorLigado' = desired
        /\ pending' = Append(pending, [op |-> "toggleAspersor",
                                       target |-> "comandos/aspersor1",
                                       patch |-> [desired |-> desired]])
    /\ UNCHANGED <<statusAspersor1, commandVars, nonCommand>>

\* The server applies the command write; the firmware observes the document.
CommandWriteApplied ==
    /\ pending # <<>>
    /\ Head(pending).target = "comandos/aspersor1"
    /\ comandoAspersor1' = MergeDoc(comandoAspersor1, Head(pending).patch)
    /\ commandDue' = TRUE
    /\ pending' = Tail(pending)
    /\ UNCHANGED <<aspersorLigado, statusAspersor1, statusDue, nonCommand>>

\* The firmware applies the desired state and reports it in status/aspersor1.
FirmwareApplies ==
    /\ commandDue
    /\ commandDue' = FALSE
    /\ statusAspersor1' = MergeDoc(statusAspersor1, [isOn |-> comandoAspersor1.desired])
    /\ statusDue' = (statusDue \/ statusAspersor1' # statusAspersor1)
    /\ UNCHANGED <<aspersorLigado, comandoAspersor1, pending, nonCommand>>

\* The firmware cannot apply the desired state (valve fault, no water, a
\* local override): the real state, and status/aspersor1, stay as they were.
FirmwareDoesNotApply ==
    /\ commandDue
    /\ commandDue' = FALSE
    /\ UNCHANGED <<aspersorLigado, statusAspersor1, comandoAspersor1, statusDue,
                   pending, nonCommand>>

\* The listener of status/aspersor1.
statusSnapshot ==
    /\ statusDue
    /\ statusDue' = FALSE
    /\ LET data == statusAspersor1 IN
        aspersorLigado' = IF data.exists /\ Has(data, "isOn") THEN data.isOn
                          ELSE aspersorLigado
    /\ UNCHANGED <<statusAspersor1, comandoAspersor1, commandDue, pending, nonCommand>>

InitCommand ==
    /\ isAutoMode = FALSE
    /\ minHumidity = InitMinHumidity
    /\ maxHumidity = InitMaxHumidity
    /\ aspersorLigado = FALSE
    /\ listening = TRUE
    /\ configGeral = NoDoc
    /\ initialIsOn \in BOOLEAN
    /\ statusAspersor1 \in IF initialIsOn THEN {[exists |-> TRUE, isOn |-> TRUE]}
                           ELSE {NoDoc, [exists |-> TRUE, isOn |-> FALSE]}
    /\ toggleClicks = 0
    /\ authWait = <<>>
    /\ pending = <<>>
    /\ alerts = {}
    /\ dashboard = "commandStatus"
    /\ hora = <<>>
    /\ duracao = InitDuracao
    /\ days = InitDays
    /\ agendamentos = {}
    /\ nextId = 0
    /\ GardenAbsent
    /\ CardsConstructed
    /\ ChartConstructed
    /\ currentUser = FALSE
    /\ HistoryConstructed
    /\ HooksConstructed
    /\ comandoAspersor1 = NoDoc
    /\ commandDue = FALSE
    /\ statusDue = TRUE

NextCommand ==
    \/ toggleAspersor_part002
    \/ CommandWriteApplied
    \/ FirmwareApplies
    \/ FirmwareDoesNotApply
    \/ statusSnapshot

SpecCommand == InitCommand /\ [][NextCommand]_vars

-----------------------------------------------------------------------------
(* ensureAnonAuth and the mount effects that wait for it *)

MaxRows == 2

SoilInputs == {0, 1, 45}

\* What the chart and the mount effect leave alone.
nonChart == <<callVars, agendaVars, gardenVars, cardVars, historyVars, initialIsOn,
              commandVars, hooksVars>>

\* onAuthStateChanged(auth, async (user) => ...): the first callback of the
\* mount effect's ensureAnonAuth().  With a user it resolves at once, without
\* one it calls signInAnonymously and waits for it.
ensureAnonAuth_onAuthStateChanged ==
    /\ anonAuth = "observing"
    /\ anonAuth' = IF currentUser THEN "resolved" ELSE "signingIn"
    /\ UNCHANGED <<currentUser, chartMounted, chartUnsub, chartSubscribed, historico, rows>>
    /\ UNCHANGED <<controlVars, nonChart>>

\* `await signInAnonymously(auth)` resolved: a user is signed in; resolve().
signInAnonymously_resolved ==
    /\ anonAuth = "signingIn"
    /\ currentUser' = TRUE
    /\ anonAuth' = "resolved"
    /\ UNCHANGED <<chartMounted, chartUnsub, chartSubscribed, historico, rows>>
    /\ UNCHANGED <<controlVars, nonChart>>

\* signInAnonymously rejected: `.catch((e) => console.error(...))` swallows
\* the error and resolve() is called all the same.
signInAnonymously_rejected ==
    /\ anonAuth = "signingIn"
    /\ anonAuth' = "resolved"
    /\ UNCHANGED <<currentUser, chartMounted, chartUnsub, chartSubscribed, historico, rows>>
    /\ UNCHANGED <<controlVars, nonChart>>

\* HistoryChart mounts and its effect runs: `let unsub = () => {}`, then
\* ensureAnonAuth() is called.
HistoryChart_useEffect ==
    /\ chartMounted = "notYet"
    /\ chartMounted' = "mounted"
    /\ chartUnsub' = "noop"
    /\ anonAuth' = "observing"
    /\ UNCHANGED <<currentUser, chartSubscribed, historico, rows>>
    /\ UNCHANGED <<controlVars, nonChart>>

\* The then-callback of the effect: `unsub = onSnapshot(q, ...)`.  Nothing in
\* it looks at whether the component is still mounted.
HistoryChart_subscribe ==
    /\ chartMounted # "notYet"
    /\ anonAuth = "resolved"
    /\ anonAuth' = "done"
    /\ chartUnsub' = "onSnapshot"
    /\ chartSubscribed' = TRUE
    /\ UNCHANGED <<currentUser, chartMounted, historico, rows>>
    /\ UNCHANGED <<controlVars, nonChart>>

\* soilRaw <= 1 ? Math.round(soilRaw * 100) : Math.round(soilRaw)
soilPct(soilRaw) == IF soilRaw <= 1 THEN soilRaw * 100 ELSE soilRaw

\* snap.docs.map(...) of the snapshot callback.
parsed(docs) == [i \in 1..Len(docs) |-> [soilPct |-> soilPct(docs[i].soil)]]

\* The snapshot callback of the historico listener: setRows(parsed).
HistoryChart_onSnapshot ==
    /\ chartSubscribed
    /\ rows' = parsed(historico)
    /\ UNCHANGED <<currentUser, anonAuth, chartMounted, chartUnsub, chartSubscribed,
                   historico>>
    /\ UNCHANGED <<controlVars, nonChart>>

FallbackLen == 28
FallbackBase == 45
FallbackCycle == 5
FallbackStep == 5

\* Array.from({ length: 28 }, (_, i) => ({ ts, soilPct: 45 + (i % 5) * 5, temp }))
Fallback ==
    [k \in 1..FallbackLen |->
        [soilPct |-> FallbackBase + ((k - 1) % FallbackCycle) * FallbackStep]]

\* Mutant of data: the real rows are appended to the demonstration series.
data_mixed == Fallback \o rows

\* const data = useMemo(() => { if (rows.length) return rows; ...fallback }, [rows])
data == IF Len(rows) # 0 THEN rows ELSE Fallback

\* The cleanup of the effect, `return () => unsub()`, run at teardown: it
\* calls whatever `unsub` holds at that moment.
HistoryChart_cleanup ==
    /\ chartMounted = "mounted"
    /\ chartMounted' = "tornDown"
    /\ chartSubscribed' = IF chartUnsub = "onSnapshot" THEN FALSE ELSE chartSubscribed
    /\ UNCHANGED <<currentUser, anonAuth, chartUnsub, historico, rows>>
    /\ UNCHANGED <<controlVars, nonChart>>

\* The firmware logs a reading into historico.
HistoricoWrite(soil) ==
    /\ Len(historico) < MaxRows
    /\ historico' = Append(historico, [soil |-> soil])
    /\ UNCHANGED <<currentUser, anonAuth, chartMounted, chartUnsub, chartSubscribed, rows>>
    /\ UNCHANGED <<controlVars, nonChart>>

\* The page opens with or without a signed-in user from an earlier visit.
InitChart ==
    /\ isAutoMode = FALSE
    /\ minHumidity = InitMinHumidity
    /\ maxHumidity = InitMaxHumidity
    /\ aspersorLigado = FALSE
    /\ listening = FALSE
    /\ configGeral = NoDoc
    /\ statusAspersor1 = NoDoc
    /\ toggleClicks = 0
    /\ initialIsOn = FALSE
    /\ authWait = <<>>
    /\ pending = <<>>
    /\ alerts = {}
    /\ dashboard = "weekdays"
    /\ hora = <<>>
    /\ duracao = InitDuracao
    /\ days = InitDays
    /\ agendamentos = {}
    /\ nextId = 0
    /\ GardenAbsent
    /\ CardsConstructed
    /\ HistoryConstructed
    /\ HooksConstructed
    /\ comandoAspersor1 = NoDoc
    /\ commandDue = FALSE
    /\ statusDue = FALSE
    /\ ChartConstructed
    /\ currentUser \in BOOLEAN

NextChart ==
    \/ HistoryChart_useEffect
    \/ ensureAnonAuth_onAuthStateChanged
    \/ signInAnonymously_resolved
    \/ signInAnonymously_rejected
    \/ HistoryChart_subscribe
    \/ HistoryChart_onSnapshot
    \/ HistoryChart_cleanup
    \/ \E soil \in SoilInputs : HistoricoWrite(soil)

SpecChart == InitChart /\ [][NextChart]_vars

\* The mount effect of the weekday dashboard: ensureAnonAuth() is called.
Dashboard_useEffect ==
    /\ anonAuth = "idle"
    /\ anonAuth' = "observing"
    /\ UNCHANGED <<currentUser, chartMounted, chartUnsub, chartSubscribed, historico, rows>>
    /\ UNCHANGED <<controlVars, nonChart>>

\* ensureAnonAuth().then(() => setup()) / `const cleanup = setupListeners()`:
\* the listeners are attached once the promise has resolved.
setupListeners ==
    /\ anonAuth = "resolved"
    /\ anonAuth' = "done"
    /\ listening' = TRUE
    /\ UNCHANGED <<isAutoMode, minHumidity, maxHumidity, aspersorLigado, configGeral,
                   statusAspersor1, toggleClicks>>
    /\ UNCHANGED <<currentUser, chartMounted, chartUnsub, chartSubscribed, historico, rows>>
    /\ UNCHANGED nonChart

NextMount ==
    \/ Dashboard_useEffect
    \/ ensureAnonAuth_onAuthStateChanged
    \/ signInAnonymously_resolved
    \/ signInAnonymously_rejected
    \/ setupListeners
    \/ handleAutoModeToggle
    \/ \E e \in SliderInputs : handleMinHumidityChange(e)
    \/ AuthResolved
    \/ ConfigWriteApplied
    \/ unsubConfig

SpecMount == InitChart /\ [][NextMount]_vars

-----------------------------------------------------------------------------
(* Hooks dashboard (README.md, second listing): ManualControlCard, *)
(* useHumidityHistory, useCurrentHumidity and HumidityCard *)

MaxActuatorWrites == 2
MaxReadings == 2

\* What the manual card and the humidity hooks leave alone.
nonHooks == <<isAutoMode, minHumidity, maxHumidity, aspersorLigado, listening,
              configGeral, toggleClicks, authWait, alerts, agendaVars, gardenVars,
              cardVars, historyVars, initialIsOn, commandVars, chartVars>>

\* Mutant of buttonDisabled: the button is never disabled.
buttonDisabled_never == FALSE

\* <button onClick={handleClick} disabled={loading}>
buttonDisabled == loading

\* handleClick up to `await triggerActuator(proximoEstado)`: setLoading(true)
\* and setDoc(status/aspersor1, { isOn: nextState, updatedAt }).
ManualControlCard_handleClick ==
    /\ ~buttonDisabled
    /\ Len(pending) < MaxActuatorWrites
    /\ LET proximoEstado == ~cardIsOn IN
        /\ loading' = TRUE
        /\ pending' = Append(pending, [op |-> "triggerActuator",
                                       target |-> "status/aspersor1",
                                       patch |-> [isOn |-> proximoEstado]])
    /\ UNCHANGED <<cardIsOn, statusAspersor1, leiturasUmidade, humidityHistory, nonHooks>>

\* setDoc resolved: triggerActuator returns { ok: true }; handleClick goes on
\* with setIsOn(proximoEstado) and setLoading(false).  setDoc without merge
\* replaces the document.
triggerActuator_resolved ==
    /\ pending # <<>>
    /\ Head(pending).op = "triggerActuator"
    /\ statusAspersor1' = [exists |-> TRUE, isOn |-> Head(pending).patch.isOn]
    /\ cardIsOn' = Head(pending).patch.isOn
    /\ loading' = FALSE
    /\ pending' = Tail(pending)
    /\ UNCHANGED <<leiturasUmidade, humidityHistory, nonHooks>>

\* setDoc rejected: the catch block of triggerActuator returns { ok: false };
\* handleClick skips setIsOn and calls setLoading(false).
triggerActuator_rejected ==
    /\ pending # <<>>
    /\ Head(pending).op = "triggerActuator"
    /\ loading' = FALSE
    /\ pending' = Tail(pending)
    /\ UNCHANGED <<cardIsOn, statusAspersor1, leiturasUmidade, humidityHistory, nonHooks>>

\* The firmware or another client changes status/aspersor1.
CardExternalStatusWrite(value) ==
    /\ statusAspersor1' = [exists |-> TRUE, isOn |-> value]
    /\ UNCHANGED <<loading, cardIsOn, pending, leiturasUmidade, humidityHistory, nonHooks>>

NoStamp == 0
UmidadeInputs == {-5, 40, 150}

\* A document is added to leiturasUmidade: umidade a number (in or out of
\* 0..100) or something else, createdAt a timestamp or missing.  Timestamps
\* grow with the documents.
StoreReading(umidade, numeric, stamped) ==
    /\ Cardinality(leiturasUmidade) < MaxReadings
    /\ LET id == Cardinality(leiturasUmidade) + 1 IN
        leiturasUmidade' = leiturasUmidade \cup
            {[id |-> id, createdAt |-> IF stamped THEN id ELSE NoStamp,
              numeric |-> numeric, umidade |-> umidade]}
    /\ UNCHANGED <<loading, cardIsOn, pending, statusAspersor1, humidityHistory, nonHooks>>

\* d.createdAt && typeof d.umidade === "number" &&
\* typeof d.createdAt.toMillis === "function"
ValidReading(d) == d.createdAt # NoStamp /\ d.numeric

\* .sort((a, b) => a.createdAt.toMillis() - b.createdAt.toMillis())
RECURSIVE SortByCreatedAt(_)
SortByCreatedAt(docs) ==
    IF docs = {} THEN <<>>
    ELSE LET first == CHOOSE d \in docs : \A o \in docs : d.createdAt <= o.createdAt
         IN <<first>> \o SortByCreatedAt(docs \ {first})

\* What the snapshot callback of useHumidityHistory hands to setData.
HumidityPoints(docs) ==
    LET sorted == SliceLast(SortByCreatedAt({d \in docs : ValidReading(d)}), HistoryWindow)
    IN [i \in DOMAIN sorted |-> [dateLabel |-> sorted[i].createdAt,
                                 humidity |-> sorted[i].umidade]]

\* The snapshot callback of useHumidityHistory.
useHumidityHistory_onSnapshot ==
    /\ humidityHistory' = HumidityPoints(leiturasUmidade)
    /\ UNCHANGED <<loading, cardIsOn, pending, statusAspersor1, leiturasUmidade, nonHooks>>

\* Mutant of useCurrentHumidity: the first point of the history is taken.
useCurrentHumidity_first(history) ==
    IF Len(history) > 0 THEN history[1].humidity ELSE 0

\* history.length ? history[history.length - 1].humidity : 0
useCurrentHumidity(history) ==
    IF Len(history) > 0 THEN history[Len(history)].humidity ELSE 0

\* HumidityCard: Math.max(0, Math.min(100, value ?? 0))
pct(value) == Max2(0, Min2(100, value))

\* What the humidity card shows.
currentHum == pct(useCurrentHumidity(humidityHistory))

NextHooks ==
    \/ ManualControlCard_handleClick
    \/ triggerActuator_resolved
    \/ triggerActuator_rejected
    \/ \E value \in BOOLEAN : CardExternalStatusWrite(value)
    \/ \E umidade \in UmidadeInputs, numeric \in BOOLEAN, stamped \in BOOLEAN :
           StoreReading(umidade, numeric, stamped)
    \/ useHumidityHistory_onSnapshot

SpecHooks == InitCards /\ [][NextHooks]_vars

-----------------------------------------------------------------------------
(* Claims *)

\* C1: every change of the minimum or the maximum slider leaves minHumidity
\* strictly below maxHumidity, for every slider position and from every state
\* the dashboard reaches from (35, 60).
C1_SlidersKeepMinBelowMax ==
    [][(\E e \in SliderInputs :
            handleMinHumidityChange(e) \/ handleMaxHumidityChange(e))
       => minHumidity' < maxHumidity']_vars

\* C1 witness: the minimum slider was pushed to or past the maximum and was
\* clamped to one below it (nothing was ever stored, so no snapshot set it).
C1_Witness ==
    /\ ~configGeral.exists
    /\ maxHumidity = InitMaxHumidity
    /\ minHumidity = InitMaxHumidity - 1

\* C3: after the configuration listener has processed a snapshot that carries
\* a numeric minHumidity or maxHumidity, the local minHumidity is strictly
\* below the local maxHumidity.
C3_SnapshotKeepsMinBelowMax ==
    [][(/\ unsubConfig
        /\ configGeral.exists
        /\ (Has(configGeral, "minHumidity") \/ Has(configGeral, "maxHumidity")))
       => minHumidity' < maxHumidity']_vars

\* C5: no write to status/aspersor1 is issued while isAutoMode is true.  The
\* write is issued when the handler resumes after `await ensureAnonAuth()`.
C5_NoManualWriteInAutoMode ==
    [][(AuthResolved /\ Head(authWait).op = "toggleAspersor")
       => ~isAutoMode]_vars

\* The time has the form HH:MM: two digits, a colon, two digits.
IsHHMM(time) ==
    /\ Len(time) = 5
    /\ time[3] = ":"
    /\ \A i \in {1, 2, 4, 5} : time[i] \in Digits

ScheduleWritesInFlight ==
    {authWait[i].patch : i \in {j \in DOMAIN authWait : authWait[j].target = "agendamentos"}}
    \cup {pending[i].patch : i \in {j \in DOMAIN pending : pending[j].target = "agendamentos"}}

\* C2: every schedule document the dashboard writes or has stored has a time of
\* the form HH:MM and a duration of at least 1 minute, and a call of
\* addAgendamento with any other input writes nothing.
C2_OnlyValidSchedulesCreated ==
    /\ [](\A d \in ScheduleWritesInFlight \cup agendamentos :
              IsHHMM(d.time) /\ d.minutes >= 1)
    /\ [][((addAgendamento \/ addAgendamento_part001)
            /\ ~(IsHHMM(hora) /\ duracao >= 1))
          => UNCHANGED <<authWait, pending, agendamentos>>]_vars

\* C2 witness: a schedule was stored and an invalid time was refused.
C2_Witness ==
    /\ agendamentos # {}
    /\ "Informe um horario valido (HH:MM)." \in alerts

\* C4: whenever a write issued by a handler of the two-valve dashboard is
\* rejected, the user is shown an error: the banner carries a message or an
\* alert is raised.
C4_WriteFailuresSurfaced ==
    [][GardenWriteRejected => (error' # NoError \/ alerts' # alerts)]_vars

\* C8: once the component is unmounted none of its listeners is attached.
C8_UnsubscribedOnTeardown == mounted \/ ~subscribed

\* The stored garden document keeps its sensor fields across a step.
SensorsKept ==
    /\ Has(gardenMain', "sensors") = Has(gardenMain, "sensors")
    /\ Has(gardenMain, "sensors") => gardenMain'.sensors = gardenMain.sensors

\* C9 as stated: no write of the dashboard changes the sensor fields of the
\* stored document.
C9_SensorsNeverWrittenByUI ==
    [][GardenWriteApplied => SensorsKept]_vars

\* C9 amended: the sensor fields of the stored document are written only by
\* the mount-time initialisation (ensureFirestoreData) and by the mock-data
\* button (updateMockSensorData); every other write of the dashboard leaves
\* them as they were.
C9_OnlyInitAndMockWriteSensors ==
    [][(/\ GardenWriteApplied
        /\ Head(pending).op \notin {"ensureFirestoreData", "updateMockSensorData"})
       => SensorsKept]_vars

\* C9 witness: a valve was switched on in the stored document that carries a
\* reading of the firmware.
C9_Witness ==
    /\ gardenMain.exists
    /\ gardenMain.valves.valve1
    /\ gardenMain.sensors = FirmwareReading

\* A step of a handler bound to a click or a form submit.
UserWrite ==
    \/ \E valveId \in ValveIds : handleValveToggle(valveId)
    \/ \E newSensorData \in MockReadings : updateMockSensorData(newSensorData)
    \/ handleAddSchedule
    \/ \E scheduleId \in 0..MaxDocs : handleDeleteSchedule(scheduleId)

\* C10 as stated: a write is issued only by a step of a user's handler.
C10_WritesOnlyFromUserActions ==
    [][Len(pending') > Len(pending) => UserWrite]_vars

\* C10 amended: a write is issued only by a step of a user's handler, or by
\* the mount-time initialisation, which writes the default document and only
\* when getDoc found no document.
C10_WritesFromUserOrInitialisation ==
    [][Len(pending') > Len(pending)
       => \/ UserWrite
          \/ /\ ensureFirestoreData
             /\ ~gardenMain.exists
             /\ pending'[Len(pending')].patch = DefaultGarden]_vars

\* C10 witness: the default document is being written on mount, and the
\* user has not been shown the dashboard yet.
C10_Witness ==
    /\ pending # <<>>
    /\ Head(pending).op = "ensureFirestoreData"
    /\ isLoading

\* The configurations the card has handed to setDoc and that are not yet
\* acknowledged.
SettingsWritesInFlight ==
    {pending[i].patch : i \in {j \in DOMAIN pending : pending[j].op = "useAutoSettings.save"}}

C7_OnlyValidScheduleSaved ==
    \A i \in DOMAIN pending :
        pending[i].op = "useSchedule.save"
            => IsHHMM(pending[i].patch.time) /\ pending[i].patch.minutes >= 1

\* The stored daily averages whose date lies within the 15 days that end
\* today.
LastDaysEntries ==
    {e \in Parsed(mediaDiaria) : today - HistoryWindow <= e.rawDate /\ e.rawDate <= today}

C12_DeleteOnlyClickedSchedule ==
    /\ [][(/\ Len(pending') > Len(pending)
           /\ pending'[Len(pending')].op = "handleDeleteSchedule")
          => \E i \in DOMAIN schedules :
                /\ handleDeleteSchedule(schedules[i].id)
                /\ firebaseUp]_vars
    /\ [][\A scheduleId \in 0..MaxDocs :
             (handleDeleteSchedule(scheduleId) /\ pending' # pending)
                => pending'[Len(pending')].patch.id = scheduleId]_vars
    /\ [][(GardenWriteApplied /\ Head(pending).op = "handleDeleteSchedule")
          => schedulesCol' = {d \in schedulesCol : d.id # Head(pending).patch.id}]_vars
    /\ [][(schedulesCol' # schedulesCol /\ Cardinality(schedulesCol') < Cardinality(schedulesCol))
          => (GardenWriteApplied /\ Head(pending).op = "handleDeleteSchedule")]_vars
    /\ [][gardenMain.exists => gardenMain'.exists]_vars

\* C12 witness: two schedules were listed, the second of the list was
\* removed and the other one is still stored.
C12_Witness ==
    /\ Len(schedules) = 2
    /\ schedulesCol = {d \in schedulesCol : d.id = schedules[1].id}
    /\ Cardinality(schedulesCol) = 1

\* The stored on/off state; a missing document is the initial state, off.
StoredIsOn ==
    statusAspersor1.exists /\ Has(statusAspersor1, "isOn") /\ statusAspersor1.isOn

\* C13: when n = 1, 2 or 3 clicks have been made, every write has been
\* applied and the snapshots have been delivered, the stored state is the
\* initial stored state flipped n times.
C13_TogglesFlipStoredState ==
    (/\ toggleClicks \in 1..3
     /\ authWait = <<>>
     /\ pending = <<>>
     /\ listening
     /\ aspersorLigado = StoredIsOn)
    => (StoredIsOn <=> (initialIsOn <=> toggleClicks % 2 = 0))

\* C14: in every quiescent state of the command/status dashboard (no write in
\* flight, no snapshot due, the firmware has handled the last command) the
\* displayed aspersorLigado equals the stored status/aspersor1.isOn.
C14_DisplayedIsStoredStatus ==
    (pending = <<>> /\ ~statusDue /\ ~commandDue) => (aspersorLigado = StoredIsOn)

\* The listener of configuracao/geral has nothing new to deliver: called with
\* the stored document it would leave the local state as it is.
ConfigDelivered ==
    /\ listening
    /\ configGeral.exists =>
        /\ Has(configGeral, "autoModeEnabled") => isAutoMode = configGeral.autoModeEnabled
        /\ Has(configGeral, "minHumidity") => minHumidity = snapshotMinValue(configGeral)
        /\ Has(configGeral, "maxHumidity") => maxHumidity = snapshotMaxValue(configGeral)

\* C15: in every quiescent state in which the stored configuration has
\* autoModeEnabled = true, the stored minHumidity and maxHumidity exist and
\* equal the thresholds displayed as the active band.
C15_StoredBandIsDisplayedBand ==
    (/\ authWait = <<>>
     /\ pending = <<>>
     /\ ConfigDelivered
     /\ configGeral.exists
     /\ Has(configGeral, "autoModeEnabled")
     /\ configGeral.autoModeEnabled)
    => /\ Has(configGeral, "minHumidity")
       /\ Has(configGeral, "maxHumidity")
       /\ configGeral.minHumidity = minHumidity
       /\ configGeral.maxHumidity = maxHumidity

\* C16: when the write issued by handleAutoModeToggle is rejected, the local
\* isAutoMode returns to the value it had before the toggle (the opposite of
\* the value the toggle tried to store).
C16_ToggleRevertedOnFailure ==
    [][(/\ WriteRejected
        /\ Head(pending).op = "updateAutoModeConfig"
        /\ Has(Head(pending).patch, "autoModeEnabled"))
       => isAutoMode' = ~Head(pending).patch.autoModeEnabled]_vars

\* C17: once the history chart has been torn down no historico subscription
\* remains active and no snapshot callback sets rows afterwards, whether the
\* teardown comes before or after the authentication resolves.
C17_NoSubscriptionAfterTeardown ==
    /\ [](chartMounted = "tornDown" => ~chartSubscribed)
    /\ [][chartMounted = "tornDown" => rows' = rows]_vars

\* C18: at the moment the listeners of the dashboard are attached a user is
\* signed in, whether the anonymous sign-in succeeded or failed.
C18_SignedInWhenListenersAttached ==
    [][(~listening /\ listening') => currentUser']_vars

\* C19: the initial write of ensureFirestoreData never overwrites an existing
\* garden document: if the document exists when the write is applied, its
\* sensors and valves are left unchanged.
C19_InitNeverOverwrites ==
    [][(/\ pending # <<>>
        /\ Head(pending).op = "ensureFirestoreData"
        /\ gardenMain.exists
        /\ GardenWriteApplied)
       => /\ gardenMain'.sensors = gardenMain.sensors
          /\ gardenMain'.valves = gardenMain.valves]_vars

\* C20: in the two-valve dashboard the loading spinner always goes away: from
\* every state after mount the loading condition (not isAuthReady or
\* isLoading) eventually becomes false, whatever the outcome of the
\* authentication and of the initial read.
C20_SpinnerGoesAway == mounted ~> (isAuthReady /\ ~isLoading)

\* The sign-in failed, the initialisation was never started, and the spinner
\* is gone.
C20_Witness ==
    /\ mounted /\ firebaseUp /\ error = AuthFailed /\ userId = NoUser
    /\ isAuthReady /\ ~isLoading

\* The actuator writes in flight.
ActuatorWrites ==
    Cardinality({i \in DOMAIN pending : pending[i].op = "triggerActuator"})

\* C21: loading is true exactly while a triggerActuator write is in flight,
\* and at most one such write is in flight at any time; so loading is false
\* again once the write has completed, applied or rejected.
C21_LoadingIffWriteInFlight ==
    /\ ActuatorWrites <= 1
    /\ loading <=> ActuatorWrites = 1

\* A click has been served: the write was applied and loading is false again.
C21_Witness ==
    /\ ~loading /\ ActuatorWrites = 0
    /\ cardIsOn /\ statusAspersor1 = [exists |-> TRUE, isOn |-> TRUE]

\* C22: whenever no actuator write is in flight the status the card shows
\* (isOn) equals the isOn stored in status/aspersor1.
C22_CardShowsStoredStatus ==
    ActuatorWrites = 0 => (cardIsOn <=> StoredIsOn)

\* The valid readings stored in leiturasUmidade.
ValidReadings == {d \in leiturasUmidade : ValidReading(d)}

WeekdaySchedules ==
    {authWait[i].patch : i \in {j \in DOMAIN authWait : authWait[j].op = "addAgendamento"}}
    \cup {pending[i].patch :
            i \in {j \in DOMAIN pending :
                     pending[j].op \in {"addAgendamento", "useSchedule.save"}}}
    \cup agendamentos
    \cup (IF agendamentoAspersor1.exists THEN {agendamentoAspersor1} ELSE {})

DayAlerts ==
    {"Informe um horario valido (HH:MM).",
     "Selecione pelo menos um dia da semana.",
     "Selecione pelo menos um dia da semana!"}

\* C23: a schedule is never written with an empty set of weekdays: every
\* schedule document written or stored has at least one day, and an add/save
\* with no day selected shows an alert and issues no write.
C23_NoScheduleWithoutDays ==
    /\ [](\A d \in WeekdaySchedules : Len(d.days) >= 1)
    /\ [][(addAgendamento /\ Len(days) = 0)
          => /\ UNCHANGED <<authWait, pending, agendamentos>>
             /\ alerts' \cap DayAlerts # {}]_vars
    /\ [][(dashboard = "hooks" /\ ScheduleCard_save /\ \A i \in DOMAIN days : ~days[i])
          => /\ UNCHANGED <<authWait, pending, agendamentoAspersor1>>
             /\ "Selecione pelo menos um dia da semana!" \in alerts']_vars

\* The form has a valid time and no day, and the add was refused for it.
C23_Witness ==
    /\ dashboard = "weekdays"
    /\ days = <<>>
    /\ RegexHHMM(hora)
    /\ "Selecione pelo menos um dia da semana." \in alerts
    /\ authWait = <<>> /\ pending = <<>> /\ agendamentos = {}

\* The documents addAgendamento of the weekday dashboard has written.
AddedSchedules ==
    {authWait[i].patch : i \in {j \in DOMAIN authWait : authWait[j].op = "addAgendamento"}}
    \cup {pending[i].patch : i \in {j \in DOMAIN pending : pending[j].op = "addAgendamento"}}

\* C24: every document addAgendamento of the weekday dashboard writes
\* satisfies the create rule of /agendamentos: keys time, minutes, aspersorId,
\* createdAt and days; minutes >= 1; aspersorId 'aspersor1'; days an ascending
\* duplicate-free list of 1 to 7 values from 0..6.
C24_AddedScheduleSatisfiesRule ==
    dashboard = "weekdays" =>
      \A d \in AddedSchedules :
        /\ {"time", "minutes", "aspersorId", "createdAt", "days"} \subseteq DOMAIN d
        /\ d.minutes \in Nat /\ d.minutes >= 1
        /\ d.aspersorId = "aspersor1"
        /\ Len(d.days) >= 1 /\ Len(d.days) <= 7
        /\ \A i \in DOMAIN d.days : d.days[i] \in 0..6
        /\ \A i, j \in DOMAIN d.days : i < j => d.days[i] < d.days[j]

\* A document is on its way whose days were checked out of order.
C24_Witness ==
    /\ dashboard = "weekdays"
    /\ Len(days) >= 2 /\ days[1] > days[2]
    /\ AddedSchedules # {}

\* C25: the weekday-label mapping round-trips: a selection of the seven days
\* with at least one day, stored by useSchedule.save and read back by the
\* snapshot handler of useSchedule, comes back as the same selection.
C25_WeekdaySelectionRoundTrips ==
    [][(useSchedule_onSnapshot /\ agendamentoAspersor1.exists)
       => (schedule'.days = days /\ days' = days)]_vars

\* Dom and Sab, and nothing else, were saved and read back.
C25_Witness ==
    /\ agendamentoAspersor1.exists
    /\ agendamentoAspersor1.days = <<"Dom", "Sab">>
    /\ schedule.days = <<TRUE, FALSE, FALSE, FALSE, FALSE, FALSE, TRUE>>
    /\ days = schedule.days

\* C26: a valve toggle changes only that valve's field of the garden document
\* (the other valve and the sensors are left as stored), and a mock sensor
\* update leaves both valves as stored.
C26_ValveToggleTouchesOneValve ==
    [][(pending # <<>> /\ GardenWriteApplied)
       => LET task == Head(pending) IN
          /\ task.op = "handleValveToggle" =>
                /\ gardenMain'.sensors = gardenMain.sensors
                /\ \A other \in ValveIds \ {task.patch.valveId} :
                       gardenMain'.valves[other] = gardenMain.valves[other]
                /\ gardenMain'.valves[task.patch.valveId] = task.patch.value
          /\ task.op = "updateMockSensorData" =>
                gardenMain'.valves = gardenMain.valves]_vars

\* Both valves were turned on one after the other over sensors that are not
\* the defaults.
C26_Witness ==
    /\ gardenMain.exists
    /\ gardenMain.valves = [valve1 |-> TRUE, valve2 |-> TRUE]
    /\ gardenMain.sensors # DefaultGarden.sensors
    /\ pending = <<>>

\* C28: the charted data is never empty, it is the fallback series exactly
\* when no rows are held, otherwise it is the rows of the most recent
\* snapshot and nothing else.
C28_FallbackIffNoRows ==
    /\ [](/\ data # <<>>
          /\ data = Fallback <=> rows = <<>>
          /\ rows # <<>> => data = rows)
    /\ [][HistoryChart_onSnapshot
          => data' = IF historico = <<>> THEN Fallback ELSE parsed(historico)]_vars

\* Rows of a snapshot are charted; the fallback series is gone.
C28_Witness ==
    /\ Len(rows) = 2
    /\ rows = parsed(historico)
    /\ data = rows

\* C29: for every stored soil reading given as an integer percentage r in
\* 0..100 the charted soilPct equals r.
C29_ChartedSoilIsStoredPercentage ==
    [][HistoryChart_onSnapshot
       => \A i \in DOMAIN historico :
             historico[i].soil \in 0..100 => rows'[i].soilPct = historico[i].soil]_vars

====
